---- MODULE Spec2Model ----
\* A model of the Datacmd widgets (Funnel, PieChart, Radar, Table, Histogram,
\* ScatterPlot), of the layout packer of the dashboard, of the per-widget
\* locking and of the periodic recompute tasks.
EXTENDS Integers, Sequences, FiniteSets, TLC

VARIABLES widget, funnel, pie, radar, table, config, widgets, layout,
          mu, pc, data, ret,
          csvData, ctxDone, proc, taskPc, ticker, invoked, shown,
          heap, histogram, scatter, cvs,
          sourcePath, configYml, dataSource

widgetVars == <<widget, funnel, pie, radar, table>>

layoutVars == <<config, widgets, layout>>

lockVars == <<mu, pc, data>>

periodicVars == <<csvData, ctxDone, proc, taskPc, ticker, invoked, shown>>

dotVars == <<heap, histogram, scatter, cvs>>

genVars == <<sourcePath, configYml, dataSource>>

vars == <<widgetVars, layoutVars, lockVars, periodicVars, dotVars, genVars, ret>>

\* ---------------------------------------------------------------- bounds

MaxValuesLen == 2
MaxValue == 1
NumLabels == 3
MaxFloat == 2
MaxCols == 2
MaxRowsPerPage == 3
CellTextLen == 3
MaxWidgets == 7
MaxMixedWidgets == 3
MaxLongWidgets == 191
MaxRecords == 3
MaxBins == 7
MaxShortBins == 1
MaxBinValue == 2
MaxPoints == 2
MaxCoord == 1
MaxInvocations == 2
MaxPathLen == 3

\* ---------------------------------------------------------------- helpers

SeqsUpTo(S, n) == UNION {[1..k -> S] : k \in 0..n}

\* The nil error.
OK == "nil"

\* Go's integer division and remainder: the quotient is truncated toward
\* zero and the remainder has the sign of the dividend.
GoDiv(a, b) == IF a >= 0 THEN a \div b ELSE 0 - ((0 - a) \div b)

GoMod(a, b) == a - b * GoDiv(a, b)

\* int(float64(n) / float64(d) * float64(k)) for the small integers drawn
\* here: the product, then the quotient truncated toward zero.
Scale(n, d, k) == GoDiv(n * k, d)

\* ------------------------------------------------- Funnel and PieChart

\* The values Values is called with: -1 stands for the negative ints.
\* One longer call has two zero values after a positive one.
ValueSeqs == SeqsUpTo((0 - 1)..MaxValue, MaxValuesLen) \cup {<<1, 0, 0>>}

\* The colors Values is called with: none, one, or two.
ColorSeqs == {<<>>, <<1>>, <<1, 2>>}

\* &Funnel{}: nil slices and a zero total.
NewFunnel == [values |-> <<>>, colors |-> <<>>, total |-> 0]

\* &PieChart{}: nil slices and a zero total.
NewPieChart == [values |-> <<>>, colors |-> <<>>, total |-> 0]

RECURSIVE FunnelSumLoop(_, _, _)
\* The range loop of Funnel.Values from index i on, with the running total:
\* it returns at the first negative value, leaving the total summed so far.
FunnelSumLoop(values, i, total) ==
    IF i > Len(values) THEN [total |-> total, err |-> OK]
    ELSE IF values[i] < 0
         THEN [total |-> total, err |-> "all values must be non-negative"]
         ELSE FunnelSumLoop(values, i + 1, total + values[i])

\* Funnel.Values without the reset f.total = 0: the sum goes on from the
\* previous total.
FunnelValuesKeepsTotal(f, values, colors) ==
    IF Len(values) = 0 THEN [f |-> f, err |-> "values cannot be empty"]
    ELSE IF Len(colors) = 0 THEN [f |-> f, err |-> "colors cannot be empty"]
    ELSE LET r == FunnelSumLoop(values, 1, f.total)
         IN  [f |-> [values |-> values, colors |-> colors, total |-> r.total],
              err |-> r.err]

\* Funnel.Values: the funnel after the call and the error returned.
FunnelValues(f, values, colors) ==
    IF Len(values) = 0 THEN [f |-> f, err |-> "values cannot be empty"]
    ELSE IF Len(colors) = 0 THEN [f |-> f, err |-> "colors cannot be empty"]
    ELSE LET r == FunnelSumLoop(values, 1, 0)
         IN  [f |-> [values |-> values, colors |-> colors, total |-> r.total],
              err |-> r.err]

RECURSIVE PieSumLoop(_, _, _)
\* The range loop of PieChart.Values from index i on, with the running total.
PieSumLoop(values, i, total) ==
    IF i > Len(values) THEN [total |-> total, err |-> OK]
    ELSE IF values[i] < 0
         THEN [total |-> total, err |-> "all values must be non-negative"]
         ELSE PieSumLoop(values, i + 1, total + values[i])

\* PieChart.Values: the pie chart after the call and the error returned.
PieChartValues(p, values, colors) ==
    IF Len(values) = 0 THEN [f |-> p, err |-> "values cannot be empty"]
    ELSE IF Len(colors) = 0 THEN [f |-> p, err |-> "colors cannot be empty"]
    ELSE LET r == PieSumLoop(values, 1, 0)
         IN  [f |-> [values |-> values, colors |-> colors, total |-> r.total],
              err |-> r.err]

\* The early return of Draw taken only when the total is negative.
SegmentsDrawnUnlessNegative(s) ==
    IF s.total < 0 THEN <<>>
    ELSE [i \in 1..Len(s.values) |->
            [value |-> s.values[i],
             color |-> s.colors[((i - 1) % Len(s.colors)) + 1]]]

\* The segments a Draw of a Funnel or PieChart goes through: nothing when
\* total <= 0, else every stored value with colors[i % len(colors)].
SegmentsDrawn(s) ==
    IF s.total <= 0 THEN <<>>
    ELSE [i \in 1..Len(s.values) |->
            [value |-> s.values[i],
             color |-> s.colors[((i - 1) % Len(s.colors)) + 1]]]

FunnelValuesCall ==
    \E values \in ValueSeqs, colors \in ColorSeqs :
        LET r == FunnelValues(funnel, values, colors)
        IN  /\ widget = "funnel"
            /\ funnel' = r.f
            /\ ret' = [op |-> "Funnel.Values", values |-> values,
                       colors |-> colors, err |-> r.err]
            /\ UNCHANGED <<genVars, periodicVars, dotVars, layoutVars, lockVars, widget, pie, radar, table>>

\* midAndRadii and pieChartMidAndRadii on a region of w x ht cells whose
\* Min is (0, 0): the braille canvas has 2 dot columns and 4 dot rows per
\* cell, and each radius is half the side less 2, at least 1.
midAndRadii(w, ht) ==
    LET width == w * 2
        height == ht * 4
        rx == GoDiv(width, 2) - 2
        ry == GoDiv(height, 2) - 2
    IN  [mid |-> [X |-> GoDiv(width, 2), Y |-> GoDiv(height, 2)],
         radiusX |-> IF rx < 1 THEN 1 ELSE rx,
         radiusY |-> IF ry < 1 THEN 1 ELSE ry]

\* Funnel.Draw on a region of w x ht cells: the horizontal lines handed to
\* draw.BrailleLine, in order, up to and including the first one with an end
\* outside the braille canvas, which BrailleLine rejects; Draw then returns
\* the error before CopyTo. The float expressions are computed exactly,
\* which is what they yield for the small integers drawn here.
DrawFunnel(f, w, ht) ==
    LET segs == SegmentsDrawn(f)
        dotW == w * 2
        dotH == ht * 4
        centerX == GoDiv(dotW, 2)
        funnelHeight == dotH - 2
        topWidth == dotW - 2
        bottomWidth == 5
        Taper(top, bottom, n, d) ==
            IF d = 0 THEN top ELSE GoDiv(top * d - (top - bottom) * n, d)
        Height(value) ==
            LET sh == IF f.total = 0 THEN 0 ELSE Scale(value, f.total, funnelHeight)
            IN  IF sh < 1 THEN 1 ELSE sh
        SegLines(i, currentY, cum) ==
            LET currentTopWidth == Taper(topWidth, bottomWidth, cum, f.total)
                currentBottomWidth ==
                    Taper(topWidth, bottomWidth, cum + segs[i].value, f.total)
                segmentHeight == Height(segs[i].value)
            IN  [k \in 1..segmentHeight |->
                    LET lineWidth == Taper(currentTopWidth, currentBottomWidth,
                                           k - 1, segmentHeight)
                    IN  [x0 |-> centerX - GoDiv(lineWidth, 2),
                         x1 |-> centerX + GoDiv(lineWidth, 2),
                         y |-> currentY + (k - 1),
                         color |-> segs[i].color]]
        RECURSIVE LinesFrom(_, _, _)
        LinesFrom(i, currentY, cum) ==
            IF i > Len(segs) THEN <<>>
            ELSE SegLines(i, currentY, cum)
                    \o LinesFrom(i + 1, currentY + Height(segs[i].value),
                                 cum + segs[i].value)
        all == LinesFrom(1, 1, 0)
        Inside(x, y) == x >= 0 /\ x < dotW /\ y >= 0 /\ y < dotH
        bad == {k \in 1..Len(all) :
                    ~(Inside(all[k].x0, all[k].y) /\ Inside(all[k].x1, all[k].y))}
        first == CHOOSE k \in bad : \A j \in bad : k <= j
    IN  IF segs = <<>> THEN [err |-> OK, lines |-> <<>>]
        ELSE IF w < 1 \/ ht < 1 THEN [err |-> "braille.New", lines |-> <<>>]
        ELSE IF bad = {} THEN [err |-> OK, lines |-> all]
        ELSE [err |-> "failed to draw funnel segment line",
              lines |-> SubSeq(all, 1, first)]

\* PieChart.Draw on a region of w x ht cells: the radii of the outer ring,
\* which is an ellipse. The first line drawn, at angle 0, ends at
\* mid.X + radiusX; no other line ends farther from mid.
DrawPieChart(p, w, ht) ==
    LET m == midAndRadii(w, ht)
    IN  IF SegmentsDrawn(p) = <<>>
        THEN [err |-> OK, drawn |-> FALSE, radiusX |-> 0, radiusY |-> 0]
        ELSE IF w < 1 \/ ht < 1
        THEN [err |-> "braille.New", drawn |-> FALSE, radiusX |-> 0, radiusY |-> 0]
        ELSE [err |-> IF m.mid.X + m.radiusX < w * 2 THEN OK
                      ELSE "failed to draw donut slice line",
              drawn |-> m.mid.X + m.radiusX < w * 2,
              radiusX |-> m.radiusX, radiusY |-> m.radiusY]

FunnelDraw ==
    /\ widget = "funnel"
    /\ LET d == DrawFunnel(funnel, cvs.w, cvs.ht)
       IN  ret' = [op |-> "Funnel.Draw", painted |-> SegmentsDrawn(funnel),
                   lines |-> d.lines, err |-> d.err]
    /\ UNCHANGED <<genVars, periodicVars, dotVars, layoutVars, lockVars, widget, funnel, pie, radar, table>>

PieChartValuesCall ==
    \E values \in ValueSeqs, colors \in ColorSeqs :
        LET r == PieChartValues(pie, values, colors)
        IN  /\ widget = "pie"
            /\ pie' = r.f
            /\ ret' = [op |-> "PieChart.Values", values |-> values,
                       colors |-> colors, err |-> r.err]
            /\ UNCHANGED <<genVars, periodicVars, dotVars, layoutVars, lockVars, widget, funnel, radar, table>>

PieChartDraw ==
    /\ widget = "pie"
    /\ LET d == DrawPieChart(pie, cvs.w, cvs.ht)
       IN  ret' = [op |-> "PieChart.Draw", painted |-> SegmentsDrawn(pie),
                   radiusX |-> d.radiusX, radiusY |-> d.radiusY, err |-> d.err]
    /\ UNCHANGED <<genVars, periodicVars, dotVars, layoutVars, lockVars, widget, funnel, pie, radar, table>>

\* ---------------------------------------------------------------- Radar

\* float64 values: NaN, or a finite number.
NaN == [nan |-> TRUE, v |-> 0]

F(n) == [nan |-> FALSE, v |-> n]

Floats == {NaN} \cup {F(n) : n \in (0 - 1)..MaxFloat}

\* The float64 comparisons of Go: every comparison with NaN is false.
FLt(a, b) == ~a.nan /\ ~b.nan /\ a.v < b.v

FGt(a, b) == ~a.nan /\ ~b.nan /\ a.v > b.v

FLe(a, b) == ~a.nan /\ ~b.nan /\ a.v <= b.v

LabelNames == <<"a", "b", "c", "d", "e", "f">>

Labels == {LabelNames[i] : i \in 1..NumLabels}

\* A *Values: nil, or a struct with the map Data and the maximum Max.
NilValues == [isNil |-> TRUE, Data |-> <<>>, Max |-> F(0)]

\* The values SetValues is called with: nil, or a map of the first k
\* labels, every entry 1 except at most one entry, which takes every float,
\* with every float as Max.
ValuesInputs ==
    LET DataInputs ==
            {[l \in {LabelNames[i] : i \in 1..k} |-> IF l = d THEN x ELSE F(1)] :
                k \in 0..NumLabels, d \in Labels, x \in Floats}
    IN  {NilValues} \cup
        {[isNil |-> FALSE, Data |-> d, Max |-> m] : d \in DataInputs, m \in Floats}

\* Radar options as SetValues receives them: colour numbers to set.
RadarOptionSeqs == {<<>>, <<[kind |-> "WithDataColor", c |-> 1]>>}

\* newRadarOptions: axis colour 240, data colour 42.
newRadarOptions == [axisCellOpts |-> 240, dataCellOpts |-> 42]

RECURSIVE ApplyRadarOptions(_, _)
\* opt.set(r.opts) for every option, in order.
ApplyRadarOptions(o, opts) ==
    IF opts = <<>> THEN o
    ELSE ApplyRadarOptions(
            IF Head(opts).kind = "WithAxisColor"
            THEN [o EXCEPT !.axisCellOpts = Head(opts).c]
            ELSE [o EXCEPT !.dataCellOpts = Head(opts).c],
            Tail(opts))

\* NewRadar without options.
NewRadar == [values |-> NilValues, opts |-> newRadarOptions]

\* Radar.SetValues: the radar after the call and the error returned.
SetValues(r, vals, opts) ==
    IF vals.isNil \/ Cardinality(DOMAIN vals.Data) < 3
    THEN [r |-> r, err |-> "values cannot be nil or empty, and a radar chart requires at least 3 data points"]
    ELSE IF FLe(vals.Max, F(0))
    THEN [r |-> r, err |-> "maximum value must be greater than zero"]
    ELSE IF \E k \in DOMAIN vals.Data :
                FLt(vals.Data[k], F(0)) \/ FGt(vals.Data[k], vals.Max)
    THEN [r |-> r, err |-> "value is outside the valid range"]
    ELSE [r |-> [values |-> vals, opts |-> ApplyRadarOptions(r.opts, opts)],
          err |-> OK]

\* What Radar.Draw reads to paint: nothing when values is nil or has fewer
\* than 3 entries.
RadarDrawn(r) ==
    IF r.values.isNil \/ Cardinality(DOMAIN r.values.Data) < 3
    THEN NilValues
    ELSE r.values

RadarSetValuesCall ==
    \E vals \in ValuesInputs, opts \in RadarOptionSeqs :
        LET res == SetValues(radar, vals, opts)
        IN  /\ radar' = res.r
            /\ ret' = [op |-> "Radar.SetValues", vals |-> vals, err |-> res.err]
            /\ UNCHANGED <<genVars, periodicVars, dotVars, layoutVars, lockVars, widget, funnel, pie, table>>

\* Radar.Draw on a region of w x ht cells: the radius handed to
\* draw.BrailleCircle is radiusX. BrailleCircle sets every dot of the circle
\* and fails when one lies outside the braille canvas; the axes and the
\* data polygon end within radiusX and radiusY of mid.
DrawRadar(r, w, ht) ==
    LET m == midAndRadii(w, ht)
        fits == /\ m.mid.X - m.radiusX >= 0
                /\ m.mid.X + m.radiusX < w * 2
                /\ m.mid.Y - m.radiusX >= 0
                /\ m.mid.Y + m.radiusX < ht * 4
    IN  IF RadarDrawn(r) = NilValues
        THEN [err |-> OK, drawn |-> FALSE, radius |-> 0]
        ELSE IF w < 1 \/ ht < 1
        THEN [err |-> "braille.New", drawn |-> FALSE, radius |-> 0]
        ELSE [err |-> IF fits THEN OK ELSE "failed to draw external circle",
              drawn |-> fits, radius |-> m.radiusX]

RadarDraw ==
    /\ LET d == DrawRadar(radar, cvs.w, cvs.ht)
       IN  ret' = [op |-> "Radar.Draw", painted |-> RadarDrawn(radar),
                   drawn |-> d.drawn, radius |-> d.radius, err |-> d.err]
    /\ UNCHANGED <<genVars, periodicVars, dotVars, layoutVars, lockVars, widget, funnel, pie, radar, table>>

\* ---------------------------------------------------------------- Table

\* image.Rect(x0, y0, x1, y1), with the corners put in order.
Rect(x0, y0, x1, y1) ==
    [Min |-> [X |-> IF x0 <= x1 THEN x0 ELSE x1, Y |-> IF y0 <= y1 THEN y0 ELSE y1],
     Max |-> [X |-> IF x0 <= x1 THEN x1 ELSE x0, Y |-> IF y0 <= y1 THEN y1 ELSE y0]]

\* The zero image.Rectangle of a new Table.
ZeroRect == Rect(0, 0, 0, 0)

\* image.Point.In: Min is inside, Max is outside.
In(p, r) ==
    /\ r.Min.X <= p.X /\ p.X < r.Max.X
    /\ r.Min.Y <= p.Y /\ p.Y < r.Max.Y

\* newTableOptions: minColWidth 10 and 5 rows per page.
newTableOptions == [minColWidth |-> 10, rowsPerPage |-> 5]

\* RowsPerPage(count).set: counts that are not positive are ignored.
RowsPerPage(count, opts) ==
    IF count > 0 THEN [opts EXCEPT !.rowsPerPage = count] ELSE opts

RECURSIVE ApplyTableOptions(_, _)
\* o.set(opt) for every option given to NewTable, in order.
ApplyTableOptions(opt, counts) ==
    IF counts = <<>> THEN opt
    ELSE ApplyTableOptions(RowsPerPage(Head(counts), opt), Tail(counts))

\* math.Ceil(float64(a) / float64(b)) for a >= 0 and b > 0.
Ceil(a, b) == (a + b - 1) \div b

\* No table: what NewTable returns with an error.
NilTable ==
    [isNil |-> TRUE, headers |-> 0, rows |-> <<>>, opts |-> newTableOptions,
     currentPage |-> 0, rowsPerPage |-> 0, numPages |-> 0,
     prevButtonRect |-> ZeroRect, nextButtonRect |-> ZeroRect]

\* numCols taken from the headers alone, also when there are none.
NumColsHeadersOnly(headers, rows) == headers

\* numCols as NewTable, Draw and Options compute it: the header length, or
\* the length of the first row when there are no headers.
NumCols(headers, rows) ==
    IF headers > 0 THEN headers
    ELSE IF Len(rows) > 0 THEN rows[1] ELSE 0

\* The page count NewTable derives from the rows and the options.
NumPages(numRows, rowsPerPage) ==
    LET n == IF numRows > 0 /\ rowsPerPage > 0 THEN Ceil(numRows, rowsPerPage) ELSE 0
    IN  IF n = 0 /\ numRows > 0 THEN 1 ELSE n

\* NewTable: headers is the number of header cells, rows the cell count of
\* every row, counts the RowsPerPage options.
NewTable(headers, rows, counts) ==
    LET numCols == NumCols(headers, rows)
        opt == ApplyTableOptions(newTableOptions, counts)
    IN  IF \E i \in 1..Len(rows) : rows[i] # numCols
        THEN [t |-> NilTable,
              err |-> "all rows must have the same number of columns as the headers"]
        ELSE [t |-> [isNil |-> FALSE, headers |-> headers, rows |-> rows,
                     opts |-> opt, currentPage |-> 0,
                     rowsPerPage |-> opt.rowsPerPage,
                     numPages |-> NumPages(Len(rows), opt.rowsPerPage),
                     prevButtonRect |-> ZeroRect, nextButtonRect |-> ZeroRect],
              err |-> OK]

\* nextPage without the check for the last page.
nextPageNoLastCheck(t) ==
    IF t.numPages <= 1 THEN t
    ELSE [t EXCEPT !.currentPage = t.currentPage + 1]

\* nextPage.
nextPage(t) ==
    IF t.numPages <= 1 THEN t
    ELSE IF (t.currentPage + 1) >= t.numPages THEN t
    ELSE [t EXCEPT !.currentPage = t.currentPage + 1]

\* prevPage.
prevPage(t) ==
    IF t.numPages <= 1 THEN t
    ELSE IF t.currentPage <= 0 THEN t
    ELSE [t EXCEPT !.currentPage = t.currentPage - 1]

\* Table.Mouse without the test of the button.
MouseAnyButton(t, button, position) ==
    IF In(position, t.prevButtonRect) THEN prevPage(t)
    ELSE IF In(position, t.nextButtonRect) THEN nextPage(t)
    ELSE t

\* Table.Mouse without the test of the next rectangle.
MouseNextAnywhere(t, button, position) ==
    IF button > 0
    THEN IF In(position, t.prevButtonRect) THEN prevPage(t) ELSE nextPage(t)
    ELSE t

\* Table.Mouse: the prev rectangle is tested first, then the next one.
Mouse(t, button, position) ==
    IF button > 0
    THEN IF In(position, t.prevButtonRect) THEN prevPage(t)
         ELSE IF In(position, t.nextButtonRect) THEN nextPage(t)
         ELSE t
    ELSE t

\* Table.Options: the minimum size reported.
Options(t) ==
    LET numCols == NumCols(t.headers, t.rows)
    IN  [X |-> numCols * t.opts.minColWidth,
         Y |-> t.rowsPerPage + (IF t.headers > 0 THEN 1 ELSE 0)
                             + (IF t.numPages > 1 THEN 1 ELSE 0)]

\* draw.Text of a text of the given length at (x, y) on a canvas w cells
\* wide and h high: the start must be inside the canvas and the text must
\* fit on the rest of the line.
TextFits(len, x, y, w, h) ==
    /\ 0 <= x /\ x < w /\ 0 <= y /\ y < h
    /\ len <= w - x

\* drawRow of a row of numCells cells on line curY: the line must be inside
\* the canvas and every cell text must fit from its column start + 1.
DrawRowOk(numCells, colWidth, curY, w, h) ==
    /\ curY + 1 <= h
    /\ \A j \in 0..(numCells - 1) :
            TextFits(CellTextLen, j * colWidth + 1, curY, w, h)

\* The number of decimal digits of n >= 0, as fmt.Sprintf("%d") prints it.
Digits(n) == IF n < 10 THEN 1 ELSE IF n < 100 THEN 2 ELSE 3

\* Table.Draw that turns to the next page each time it is called.
DrawTurnsPage(t, w, h) ==
    LET numCols == NumCols(t.headers, t.rows)
        colWidth == w \div numCols
        hdr == IF t.headers > 0 THEN 1 ELSE 0
        start0 == t.currentPage * t.rowsPerPage
        clamp == start0 >= Len(t.rows) /\ Len(t.rows) > 0
        page == IF clamp THEN t.numPages - 1 ELSE t.currentPage
        startIndex == page * t.rowsPerPage
        endIndex == IF startIndex + t.rowsPerPage > Len(t.rows)
                    THEN Len(t.rows) ELSE startIndex + t.rowsPerPage
        t1 == [t EXCEPT !.currentPage = IF page + 1 < t.numPages THEN page + 1 ELSE 0]
        prevRect == Rect(0, h - 1, 7, h)
        nextRect == Rect(w - 7, h - 1, w, h)
        t2 == [t1 EXCEPT !.prevButtonRect = prevRect]
        t3 == [t2 EXCEPT !.nextButtonRect = nextRect]
        indicatorLen == 8 + Digits(page + 1) + Digits(t.numPages)
    IN  IF numCols = 0
        THEN [t |-> t, err |-> "cannot draw table without headers or rows"]
        ELSE IF colWidth = 0
        THEN [t |-> t, err |-> "not enough space to draw the table"]
        ELSE IF hdr = 1 /\ ~DrawRowOk(t.headers, colWidth, 0, w, h)
        THEN [t |-> t, err |-> "drawRow"]
        ELSE IF \E i \in 1..(endIndex - startIndex) :
                    ~DrawRowOk(t.rows[startIndex + i], colWidth, hdr + i - 1, w, h)
        THEN [t |-> t1, err |-> "drawRow"]
        ELSE IF t.numPages > 1
        THEN IF ~TextFits(7, prevRect.Min.X, prevRect.Min.Y, w, h)
             THEN [t |-> t2, err |-> "draw.Text"]
             ELSE IF ~TextFits(7, nextRect.Min.X, nextRect.Min.Y, w, h)
             THEN [t |-> t3, err |-> "draw.Text"]
             ELSE IF ~TextFits(indicatorLen, (prevRect.Max.X + nextRect.Min.X) \div 2,
                               h - 1, w, h)
             THEN [t |-> t3, err |-> "draw.Text"]
             ELSE [t |-> t3, err |-> OK]
        ELSE [t |-> t1, err |-> OK]

\* Table.Draw on a canvas w cells wide and h high: the table after the call
\* and the error returned.
Draw(t, w, h) ==
    LET numCols == NumCols(t.headers, t.rows)
        colWidth == w \div numCols
        hdr == IF t.headers > 0 THEN 1 ELSE 0
        start0 == t.currentPage * t.rowsPerPage
        clamp == start0 >= Len(t.rows) /\ Len(t.rows) > 0
        page == IF clamp THEN t.numPages - 1 ELSE t.currentPage
        startIndex == page * t.rowsPerPage
        endIndex == IF startIndex + t.rowsPerPage > Len(t.rows)
                    THEN Len(t.rows) ELSE startIndex + t.rowsPerPage
        t1 == [t EXCEPT !.currentPage = page]
        prevRect == Rect(0, h - 1, 7, h)
        nextRect == Rect(w - 7, h - 1, w, h)
        t2 == [t1 EXCEPT !.prevButtonRect = prevRect]
        t3 == [t2 EXCEPT !.nextButtonRect = nextRect]
        indicatorLen == 8 + Digits(page + 1) + Digits(t.numPages)
    IN  IF numCols = 0
        THEN [t |-> t, err |-> "cannot draw table without headers or rows"]
        ELSE IF colWidth = 0
        THEN [t |-> t, err |-> "not enough space to draw the table"]
        ELSE IF hdr = 1 /\ ~DrawRowOk(t.headers, colWidth, 0, w, h)
        THEN [t |-> t, err |-> "drawRow"]
        ELSE IF \E i \in 1..(endIndex - startIndex) :
                    ~DrawRowOk(t.rows[startIndex + i], colWidth, hdr + i - 1, w, h)
        THEN [t |-> t1, err |-> "drawRow"]
        ELSE IF t.numPages > 1
        THEN IF ~TextFits(7, prevRect.Min.X, prevRect.Min.Y, w, h)
             THEN [t |-> t2, err |-> "draw.Text"]
             ELSE IF ~TextFits(7, nextRect.Min.X, nextRect.Min.Y, w, h)
             THEN [t |-> t3, err |-> "draw.Text"]
             ELSE IF ~TextFits(indicatorLen, (prevRect.Max.X + nextRect.Min.X) \div 2,
                               h - 1, w, h)
             THEN [t |-> t3, err |-> "draw.Text"]
             ELSE [t |-> t3, err |-> OK]
        ELSE [t |-> t1, err |-> OK]

\* The row shapes NewTable is called with: n rows of c cells, of which at
\* most one row has another cell count d.
RowCounts == {0, 1, 2, 3, 7, 12}

RowShapes ==
    UNION {{[i \in 1..n |-> IF i = bad THEN d ELSE c] :
                c \in 0..MaxCols, bad \in 0..n, d \in 0..MaxCols} : n \in RowCounts}

\* The RowsPerPage options NewTable is called with: none, or one count.
CountSeqs == {<<>>} \cup {<<k>> : k \in (0 - 1)..MaxRowsPerPage}

\* The canvas sizes Draw is called with.
DrawWidths == {1, 6, 10, 24}

DrawHeights == {1, 7}

NewTableCall ==
    \E headers \in 0..MaxCols, rows \in RowShapes, counts \in CountSeqs :
        LET r == NewTable(headers, rows, counts)
        IN  /\ ret.op = "none"
            /\ table' = r.t
            /\ ret' = [op |-> "NewTable", headers |-> headers, rows |-> rows,
                       err |-> r.err]
            /\ UNCHANGED <<genVars, periodicVars, dotVars, layoutVars, lockVars, widget, funnel, pie, radar>>

TableDraw ==
    \E w \in DrawWidths, h \in DrawHeights :
        LET r == Draw(table, w, h)
        IN  /\ ~table.isNil
            /\ table' = r.t
            /\ ret' = [op |-> "Table.Draw", err |-> r.err]
            /\ UNCHANGED <<genVars, periodicVars, dotVars, layoutVars, lockVars, widget, funnel, pie, radar>>

\* The mouse events delivered: the button values none (0), left (1) and
\* release (4), at positions inside, between and outside the rectangles.
TableMouse ==
    \E button \in {0, 1, 4}, x \in {0 - 1, 0, 5, 8, 20, 24}, y \in {0, 6, 7} :
        LET position == [X |-> x, Y |-> y]
        IN  /\ ~table.isNil
            /\ table' = Mouse(table, button, position)
            /\ ret' = [op |-> "Table.Mouse", button |-> button,
                       inPrev |-> In(position, table.prevButtonRect),
                       inNext |-> In(position, table.nextButtonRect),
                       err |-> OK]
            /\ UNCHANGED <<genVars, periodicVars, dotVars, layoutVars, lockVars, widget, funnel, pie, radar>>

TableKeyboard ==
    /\ ~table.isNil
    /\ ret' = [op |-> "Table.Keyboard", err |-> OK]
    /\ UNCHANGED <<genVars, periodicVars, dotVars, layoutVars, lockVars, widget, funnel, pie, radar, table>>

TableOptions ==
    /\ ~table.isNil
    /\ ret' = [op |-> "Table.Options", MinimumSize |-> Options(table), err |-> OK]
    /\ UNCHANGED <<genVars, periodicVars, dotVars, layoutVars, lockVars, widget, funnel, pie, radar, table>>

\* The callback NewTable gives to the "Prev" button.
PrevButtonCallback ==
    /\ ~table.isNil
    /\ table' = prevPage(table)
    /\ ret' = [op |-> "prevButton.callback", err |-> OK]
    /\ UNCHANGED <<genVars, periodicVars, dotVars, layoutVars, lockVars, widget, funnel, pie, radar>>

\* The callback NewTable gives to the "Next" button.
NextButtonCallback ==
    /\ ~table.isNil
    /\ table' = nextPage(table)
    /\ ret' = [op |-> "nextButton.callback", err |-> OK]
    /\ UNCHANGED <<genVars, periodicVars, dotVars, layoutVars, lockVars, widget, funnel, pie, radar>>

\* -------------------------------------------------------- layout packer

\* The title of the i-th configured widget.
TitleOf(i) == "w" \o ToString(i)

\* The configurations: every list of at most MaxMixedWidgets widgets of any
\* type, every list of at most MaxWidgets widgets of a narrow and a wide
\* type, and the lists of up to MaxLongWidgets widgets of one type, all with
\* distinct titles; then lists in which two widgets share a title or a
\* widget is titled "title".
Configs ==
    {<<[typ |-> "bar", title |-> "cpu"], [typ |-> "pie", title |-> "cpu"]>>,
     <<[typ |-> "bar", title |-> "cpu"], [typ |-> "pie", title |-> "mem"],
       [typ |-> "table", title |-> "cpu"]>>,
     <<[typ |-> "bar", title |-> "title"]>>,
     <<[typ |-> "bar", title |-> "cpu"], [typ |-> "pie", title |-> "title"]>>}
    \cup
    {[i \in 1..n |-> [typ |-> "bar", title |-> TitleOf(i)]] : n \in 0..MaxLongWidgets}
    \cup
    UNION {{[i \in 1..n |-> [typ |-> k[i], title |-> TitleOf(i)]] :
                k \in [1..n -> {"radar", "bar"}]} : n \in 0..MaxWidgets}
    \cup
    UNION {{[i \in 1..n |-> [typ |-> k[i], title |-> TitleOf(i)]] :
                k \in [1..n -> {"pie", "donut", "gauge", "radar", "bar", "table"}]} :
            n \in 0..MaxMixedWidgets}

\* The widget 0 is the title text; widget i is the one created for the
\* i-th entry of the configuration.
TitleWidget == 0

\* The loop of createWidgets, widgets[w.Title] = widget for each entry in
\* turn: a title maps to the widget of the last entry that has it.
createWidgetsLoop(cfg) ==
    [t \in {cfg[i].title : i \in 1..Len(cfg)} |->
        CHOOSE i \in 1..Len(cfg) :
            /\ cfg[i].title = t
            /\ \A j \in (i + 1)..Len(cfg) : cfg[j].title # t]

\* createWidgets: the map from title to widget, with the title text stored
\* last under "title".
createWidgets(cfg) ==
    LET m == createWidgetsLoop(cfg)
    IN  [t \in (DOMAIN m) \cup {"title"} |->
            IF t = "title" THEN TitleWidget ELSE m[t]]

\* The width with "radar" missing from the narrow types.
widgetWidthRadarWide(typ) ==
    IF typ \in {"pie", "donut", "gauge"} THEN 30 ELSE 50

\* The width of a widget in the grid, by its type.
widgetWidth(typ) ==
    IF typ \in {"pie", "donut", "gauge", "radar"} THEN 30 ELSE 50

\* The body of the packing loop for the widget w: a new row is started when
\* w would make the current, non-empty row wider than 100.
packStep(st, w) ==
    LET width == widgetWidth(w.typ)
        col == [widthPerc |-> width, widget |-> w.widget]
    IN  IF st.currentWidth + width > 100 /\ Len(st.currentRow) > 0
        THEN [rows |-> Append(st.rows, st.currentRow),
              currentRow |-> <<col>>,
              currentWidth |-> width]
        ELSE [rows |-> st.rows,
              currentRow |-> Append(st.currentRow, col),
              currentWidth |-> st.currentWidth + width]

RECURSIVE packLoop(_, _, _, _)
\* The packing loop over the widgets lo..hi in order, from the state st. The
\* range is halved and the first half is evaluated before the second one is
\* entered, so that the evaluation stays shallow on long lists; currentWidth
\* is positive once a widget has been placed.
packLoop(widgetList, lo, hi, st) ==
    IF lo > hi THEN st
    ELSE IF lo = hi THEN packStep(st, widgetList[lo])
    ELSE LET mid == (lo + hi) \div 2
             left == packLoop(widgetList, lo, mid, st)
         IN  CASE left.currentWidth > 0 -> packLoop(widgetList, mid + 1, hi, left)

\* The packing loop of dynamicGridLayout, followed by the append of the last
\* row when it is not empty.
packRows(widgetList) ==
    LET st == packLoop(widgetList, 1, Len(widgetList),
                       [rows |-> <<>>, currentRow |-> <<>>, currentWidth |-> 0])
    IN  IF Len(st.currentRow) > 0 THEN Append(st.rows, st.currentRow) ELSE st.rows

\* The height of every widget row.
rowHeightPerc(rows) == (100 - 5) \div Len(rows)

\* No layout yet.
NoLayout == [err |-> OK, titleHeightPerc |-> 0, widgetList |-> <<>>, rows |-> <<>>]

\* dynamicGridLayout: the rows given to the grid builder, each with its
\* height and its columns, or the error returned.
dynamicGridLayout(ws, cfg) ==
    LET rest == [t \in (DOMAIN ws) \ {"title"} |-> ws[t]]
        numWidgets == Cardinality(DOMAIN rest)
        widgetList == [i \in 1..Len(cfg) |->
                          [widget |-> IF cfg[i].title \in DOMAIN rest
                                      THEN rest[cfg[i].title] ELSE TitleWidget,
                           typ |-> cfg[i].typ, title |-> cfg[i].title]]
        rows == packRows(widgetList)
    IN  IF "title" \notin DOMAIN ws
        THEN [err |-> "the title widget is not a valid widget",
              titleHeightPerc |-> 0, widgetList |-> <<>>, rows |-> <<>>]
        ELSE IF numWidgets = 0
        THEN [err |-> OK, titleHeightPerc |-> 5, widgetList |-> <<>>, rows |-> <<>>]
        ELSE IF \E i \in 1..Len(cfg) : cfg[i].title \notin DOMAIN rest
        THEN [err |-> "the widget is not a valid widget",
              titleHeightPerc |-> 5, widgetList |-> <<>>, rows |-> <<>>]
        ELSE [err |-> OK, titleHeightPerc |-> 5, widgetList |-> widgetList,
              rows |-> [r \in 1..Len(rows) |->
                          [heightPerc |-> rowHeightPerc(rows), cols |-> rows[r]]]]

CreateWidgetsCall ==
    /\ ret.op = "none"
    /\ widgets' = createWidgets(config)
    /\ ret' = [op |-> "createWidgets", err |-> OK]
    /\ UNCHANGED <<genVars, periodicVars, dotVars, widgetVars, lockVars, config, layout>>

DynamicGridLayoutCall ==
    /\ ret.op = "createWidgets"
    /\ layout' = dynamicGridLayout(widgets, config)
    /\ ret' = [op |-> "dynamicGridLayout", err |-> layout'.err]
    /\ UNCHANGED <<genVars, periodicVars, dotVars, widgetVars, lockVars, config, widgets>>

\* ------------------------------------------------------ per-widget locks

\* The widgets whose methods lock, and the two callers of each: the task
\* that updates it and the redraw pass that draws it.
Comps == {"histogram", "radar", "table"}

Roles == {"update", "draw"}

\* The mutex a method of widget c locks: the field mu of that widget.
MutexOf(c) == c

\* A method is called: the caller reaches mu.Lock().
Call(c, role) ==
    /\ pc[c][role] = "idle"
    /\ pc' = [pc EXCEPT ![c][role] = "lock"]
    /\ UNCHANGED <<genVars, periodicVars, dotVars, widgetVars, layoutVars, mu, data, ret>>

\* mu.Lock() that returns without waiting for the mutex to be free.
LockNoWait(c, role) ==
    /\ pc[c][role] = "lock"
    /\ mu' = [mu EXCEPT ![MutexOf(c)] = role]
    /\ pc' = [pc EXCEPT ![c][role] = IF role = "update" THEN "write" ELSE "read"]
    /\ UNCHANGED <<genVars, periodicVars, dotVars, widgetVars, layoutVars, data, ret>>

\* mu.Lock() returns: the mutex was free and is now held.
Lock(c, role) ==
    /\ pc[c][role] = "lock"
    /\ mu[MutexOf(c)] = "free"
    /\ mu' = [mu EXCEPT ![MutexOf(c)] = role]
    /\ pc' = [pc EXCEPT ![c][role] = IF role = "update" THEN "write" ELSE "read"]
    /\ UNCHANGED <<genVars, periodicVars, dotVars, widgetVars, layoutVars, data, ret>>

\* The update has assigned its first fields: the state is partly new.
UpdateWrite(c) ==
    /\ pc[c]["update"] = "write"
    /\ data' = [data EXCEPT ![c] = "partial"]
    /\ pc' = [pc EXCEPT ![c]["update"] = "writeLast"]
    /\ UNCHANGED <<genVars, periodicVars, dotVars, widgetVars, layoutVars, mu, ret>>

\* The update has assigned its last field.
UpdateWriteLast(c) ==
    /\ pc[c]["update"] = "writeLast"
    /\ data' = [data EXCEPT ![c] = "stable"]
    /\ pc' = [pc EXCEPT ![c]["update"] = "unlock"]
    /\ UNCHANGED <<genVars, periodicVars, dotVars, widgetVars, layoutVars, mu, ret>>

\* Draw reads the state of the widget.
DrawRead(c) ==
    /\ pc[c]["draw"] = "read"
    /\ pc' = [pc EXCEPT ![c]["draw"] = "unlock"]
    /\ ret' = [op |-> "Draw", widget |-> c, read |-> data[c], err |-> OK]
    /\ UNCHANGED <<genVars, periodicVars, dotVars, widgetVars, layoutVars, mu, data>>

\* The deferred mu.Unlock().
Unlock(c, role) ==
    /\ pc[c][role] = "unlock"
    /\ mu' = [mu EXCEPT ![MutexOf(c)] = "free"]
    /\ pc' = [pc EXCEPT ![c][role] = "idle"]
    /\ UNCHANGED <<genVars, periodicVars, dotVars, widgetVars, layoutVars, data, ret>>

\* ------------------------------------------- Histogram and ScatterPlot

RECURSIVE BitOr(_, _)
\* a | b on non-negative integers.
BitOr(a, b) ==
    IF a = 0 THEN b
    ELSE IF b = 0 THEN a
    ELSE (IF a % 2 = 1 \/ b % 2 = 1 THEN 1 ELSE 0)
            + 2 * BitOr(a \div 2, b \div 2)

\* The empty braille character, 0x2800.
BrailleEmpty == 10240

\* The slices the caller owns: the name "nil" stands for the nil slice.
NilRef == "nil"

BinsAt(hp, ref) == IF ref = NilRef THEN <<>> ELSE hp.bins[ref]

PointsAt(hp, ref) == IF ref = NilRef THEN <<>> ELSE hp.points[ref]

\* NewHistogram and NewScatterPlot.
NewHistogram ==
    [bins |-> NilRef, min |-> 0, max |-> 0, labels |-> NilRef,
     barColor |-> "ColorNumber(42)", alertBin |-> 0 - 1, alertCol |-> "ColorRed"]

NewScatterPlot ==
    [points |-> NilRef, xLabel |-> "", yLabel |-> "", color |-> "ColorNumber(45)"]

\* SetBins that keeps the labels it has when it is passed none.
SetBinsKeepsLabels(h, bins, min, max, labels, alertBin) ==
    [h |-> [h EXCEPT !.bins = bins, !.min = min, !.max = max,
                     !.labels = IF labels = NilRef THEN @ ELSE labels,
                     !.alertBin = alertBin],
     err |-> OK]

\* Histogram.SetBins: the slices are stored as passed, not copied.
SetBins(h, bins, min, max, labels, alertBin) ==
    [h |-> [h EXCEPT !.bins = bins, !.min = min, !.max = max,
                     !.labels = labels, !.alertBin = alertBin],
     err |-> OK]

\* Histogram.SetAlertColor.
SetAlertColor(h, col) == [h EXCEPT !.alertCol = col]

\* ScatterPlot.SetPoints: the slice is stored as passed, not copied.
SetPoints(sp, points, xLabel, yLabel) ==
    [s |-> [sp EXCEPT !.points = points, !.xLabel = xLabel, !.yLabel = yLabel],
     err |-> OK]

\* The switch of setDot that never yields the bit 0x40 of the fourth row.
dotMaskWithoutDot7(subX, subY) ==
    CASE subX = 0 /\ subY = 0 -> 1
      [] subX = 0 /\ subY = 1 -> 2
      [] subX = 0 /\ subY = 2 -> 4
      [] subX = 0 /\ subY = 3 -> 4
      [] subX = 1 /\ subY = 0 -> 8
      [] subX = 1 /\ subY = 1 -> 16
      [] subX = 1 /\ subY = 2 -> 32
      [] subX = 1 /\ subY = 3 -> 128
      [] OTHER -> 0

\* The switch of setDot: the bit of the dot at (subX, subY) of its cell.
dotMask(subX, subY) ==
    CASE subX = 0 /\ subY = 0 -> 1
      [] subX = 0 /\ subY = 1 -> 2
      [] subX = 0 /\ subY = 2 -> 4
      [] subX = 0 /\ subY = 3 -> 64
      [] subX = 1 /\ subY = 0 -> 8
      [] subX = 1 /\ subY = 1 -> 16
      [] subX = 1 /\ subY = 2 -> 32
      [] subX = 1 /\ subY = 3 -> 128
      [] OTHER -> 0

\* setDot: the braille and colour maps after the dot d = [bx, by, col].
setDot(m, d) ==
    LET pt == <<GoDiv(d.bx, 2), GoDiv(d.by, 4)>>
        mask == dotMask(GoMod(d.bx, 2), GoMod(d.by, 4))
    IN  IF pt \in DOMAIN m.brailleMap
        THEN [brailleMap |-> [m.brailleMap EXCEPT ![pt] = BitOr(@, mask)],
              colorMap |-> [m.colorMap EXCEPT ![pt] = d.col]]
        ELSE [brailleMap |-> (pt :> BitOr(BrailleEmpty, mask)) @@ m.brailleMap,
              colorMap |-> (pt :> d.col) @@ m.colorMap]

RECURSIVE setDots(_, _, _, _)
\* The setDot calls lo..hi of a Draw in order, from the maps m. The range is
\* halved and the first half is evaluated before the second one is entered;
\* the maps are not empty once a dot has been set.
setDots(calls, lo, hi, m) ==
    IF lo > hi THEN m
    ELSE IF lo = hi THEN setDot(m, calls[lo])
    ELSE LET mid == (lo + hi) \div 2
             left == setDots(calls, lo, mid, m)
         IN  CASE DOMAIN left.brailleMap # {} -> setDots(calls, mid + 1, hi, left)

\* No dot set yet: the maps made at the start of a Draw.
NoDots == [brailleMap |-> <<>>, colorMap |-> <<>>]

\* cvs.SetCell fails for a point outside the canvas area.
InCanvas(pt, w, ht) == 0 <= pt[1] /\ pt[1] < w /\ 0 <= pt[2] /\ pt[2] < ht

\* The last loop of Draw writing every cell of the canvas, a blank where the
\* braille map has no entry.
WriteCellsWholeCanvas(m, w, ht) ==
    [pt \in (0..(w - 1)) \X (0..(ht - 1)) |->
        IF pt \in DOMAIN m.brailleMap
        THEN [r |-> m.brailleMap[pt], col |-> m.colorMap[pt]]
        ELSE [r |-> BrailleEmpty, col |-> "ColorDefault"]]

\* The last loop of Draw: every cell of the braille map is written with its
\* colour; a SetCell error is skipped.
WriteCells(m, w, ht) ==
    [pt \in {q \in DOMAIN m.brailleMap : InCanvas(q, w, ht)} |->
        [r |-> m.brailleMap[pt], col |-> m.colorMap[pt]]]

\* The largest element of a non-empty set of integers.
SetMax(S) == CHOOSE m \in S : \A x \in S : x <= m

SetMin(S) == CHOOSE m \in S : \A x \in S : m <= x

\* The setDot calls of the bar of bin i (counted from 0) in loop order: x
\* outermost, then y; a dot beyond the bounds check is not set.
BarCalls(h, bins, i, brailleW, originX, originY, plotH, maxBin, barWidth, actualBarWidth) ==
    LET height == Scale(bins[i + 1], maxBin, plotH)
        col == IF h.alertBin = i THEN h.alertCol ELSE h.barColor
        startX == originX + i * barWidth
        n == IF height > 0 /\ actualBarWidth > 0 THEN actualBarWidth * height ELSE 0
        all == [k \in 1..n |->
                   [bx |-> startX + (k - 1) \div height,
                    by |-> originY - 1 - ((k - 1) % height),
                    col |-> col]]
        inBounds(d) == d.bx < brailleW /\ d.by >= 0
    IN  SelectSeq(all, inBounds)

RECURSIVE HistogramCallsFrom(_, _, _, _, _, _, _, _, _, _)
\* The setDot calls of the bars of the bins i, i + 1, ... in order.
HistogramCallsFrom(h, bins, i, brailleW, originX, originY, plotH, maxBin, barWidth, actualBarWidth) ==
    IF i >= Len(bins) THEN <<>>
    ELSE BarCalls(h, bins, i, brailleW, originX, originY, plotH, maxBin,
                  barWidth, actualBarWidth)
         \o HistogramCallsFrom(h, bins, i + 1, brailleW, originX, originY, plotH,
                               maxBin, barWidth, actualBarWidth)

\* Histogram.Draw of the bins on a fresh canvas of w by ht cells: the error
\* returned, the setDot calls made, the maps they leave and the cells
\* written. The histogram itself is not assigned to.
DrawHistogram(h, bins, w, ht) ==
    LET brailleW == w * 2
        brailleH == ht * 4
        padding == 4
        plotH == brailleH - padding * 2
        plotW == brailleW - padding * 2
        maxBin0 == SetMax({0} \cup {bins[k] : k \in 1..Len(bins)})
        maxBin == IF maxBin0 = 0 THEN 1 ELSE maxBin0
        barCount == Len(bins)
        barWidth == IF plotW \div barCount >= 1 THEN plotW \div barCount ELSE 1
        gap == IF barWidth > 2 THEN 1 ELSE 0
        actualBarWidth == barWidth - gap
        calls == HistogramCallsFrom(h, bins, 0, brailleW, padding,
                                    brailleH - padding, plotH, maxBin, barWidth,
                                    actualBarWidth)
        m == setDots(calls, 1, Len(calls), NoDots)
    IN  IF Len(bins) = 0 THEN [h |-> h, err |-> OK, calls |-> <<>>, maps |-> NoDots, cells |-> <<>>]
        ELSE IF plotW <= 0 \/ plotH <= 0
        THEN [h |-> h, err |-> OK, calls |-> <<>>, maps |-> NoDots, cells |-> <<>>]
        ELSE [h |-> h, err |-> OK, calls |-> calls, maps |-> m,
              cells |-> WriteCells(m, w, ht)]

\* ScatterPlot.Draw of the points on a fresh canvas of w by ht cells. Every
\* cell is written in the colour of the plot, which stands here for the
\* colour of every setDot call.
DrawScatter(sp, points, w, ht) ==
    LET xs == {points[k].X : k \in 1..Len(points)}
        ys == {points[k].Y : k \in 1..Len(points)}
        flatX == SetMax(xs) = SetMin(xs)
        flatY == SetMax(ys) = SetMin(ys)
        minX == IF flatX THEN SetMin(xs) - 1 ELSE SetMin(xs)
        maxX == IF flatX THEN SetMax(xs) + 1 ELSE SetMax(xs)
        minY == IF flatY THEN SetMin(ys) - 1 ELSE SetMin(ys)
        maxY == IF flatY THEN SetMax(ys) + 1 ELSE SetMax(ys)
        brailleW == w * 2
        brailleH == ht * 4
        padding == 4
        plotW == brailleW - padding * 2
        plotH == brailleH - padding * 2
        originX == padding
        originY == brailleH - padding
        yAxis == [k \in 1..(originY - padding) |->
                     [bx |-> originX, by |-> padding + k - 1, col |-> sp.color]]
        xAxis == [k \in 1..(brailleW - padding - originX) |->
                     [bx |-> originX + k - 1, by |-> originY, col |-> sp.color]]
        dots == [k \in 1..Len(points) |->
                    [bx |-> originX + Scale(points[k].X - minX, maxX - minX, plotW),
                     by |-> originY - Scale(points[k].Y - minY, maxY - minY, plotH),
                     col |-> sp.color]]
        inBounds(d) == d.bx >= 0 /\ d.bx < brailleW /\ d.by >= 0 /\ d.by < brailleH
        calls == yAxis \o xAxis \o SelectSeq(dots, inBounds)
        m == setDots(calls, 1, Len(calls), NoDots)
    IN  IF Len(points) = 0 THEN [s |-> sp, err |-> OK, calls |-> <<>>, maps |-> NoDots, cells |-> <<>>]
        ELSE IF plotW <= 0 \/ plotH <= 0
        THEN [s |-> sp, err |-> OK, calls |-> <<>>, maps |-> NoDots, cells |-> <<>>]
        ELSE [s |-> sp, err |-> OK, calls |-> calls, maps |-> m,
              cells |-> WriteCells(m, w, ht)]

\* The canvas areas the container hands to Draw.
DotWidths == {4, 5, 9}

DotHeights == {2, 4}

\* A fresh canvas of w by ht cells: nothing drawn on it yet.
FreshCanvas(w, ht) ==
    [w |-> w, ht |-> ht, drawn |-> FALSE, err |-> OK, calls |-> <<>>,
     maps |-> NoDots, cells |-> <<>>]

\* The bin slices of the callers: ramps up and down of up to MaxBins bins and
\* every slice of up to MaxShortBins bins with values from -1 to MaxBinValue.
BinSlices ==
    {[i \in 1..n |-> i] : n \in 0..MaxBins}
    \cup {[i \in 1..n |-> n + 1 - i] : n \in 2..MaxBins}
    \cup SeqsUpTo((0 - 1)..MaxBinValue, MaxShortBins)

\* The point slices of the callers: up to MaxPoints points with coordinates
\* from 0 to MaxCoord.
PointSlices == SeqsUpTo([X : 0..MaxCoord, Y : 0..MaxCoord], MaxPoints)

HistogramSetBinsCall ==
    /\ widget = "histogram"
    /\ \E bins \in DOMAIN heap.bins, mm \in {<<1, 9>>}, labels \in {NilRef, "l1"} :
        \E alertBin \in (0 - 1)..Len(heap.bins[bins]) :
            LET r == SetBins(histogram, bins, mm[1], mm[2], labels, alertBin)
            IN  /\ histogram' = r.h
                /\ ret' = [op |-> "Histogram.SetBins",
                           held |-> histogram.labels # NilRef, bins |-> bins,
                           min |-> mm[1], max |-> mm[2], labels |-> labels,
                           alertBin |-> alertBin, err |-> r.err]
    /\ cvs' = FreshCanvas(cvs.w, cvs.ht)
    /\ UNCHANGED <<genVars, widgetVars, layoutVars, lockVars, periodicVars, heap, scatter>>

HistogramSetAlertColorCall ==
    /\ widget = "histogram"
    /\ \E col \in {"ColorBlue"} :
        /\ histogram' = SetAlertColor(histogram, col)
        /\ ret' = [op |-> "Histogram.SetAlertColor", col |-> col, err |-> OK]
    /\ cvs' = FreshCanvas(cvs.w, cvs.ht)
    /\ UNCHANGED <<genVars, widgetVars, layoutVars, lockVars, periodicVars, heap, scatter>>

HistogramDraw ==
    /\ widget = "histogram"
    /\ LET d == DrawHistogram(histogram, BinsAt(heap, histogram.bins), cvs.w, cvs.ht)
       IN  /\ histogram' = d.h
           /\ cvs' = [w |-> cvs.w, ht |-> cvs.ht, drawn |-> TRUE, err |-> d.err,
                      calls |-> d.calls, maps |-> d.maps, cells |-> d.cells]
           /\ ret' = [op |-> "Histogram.Draw", err |-> d.err]
    /\ UNCHANGED <<genVars, widgetVars, layoutVars, lockVars, periodicVars, heap, scatter>>

ScatterSetPointsCall ==
    /\ widget = "scatter"
    /\ \E points \in DOMAIN heap.points, labels \in {<<"x", "y">>, <<"a", "b">>} :
        LET r == SetPoints(scatter, points, labels[1], labels[2])
        IN  /\ scatter' = r.s
            /\ ret' = [op |-> "ScatterPlot.SetPoints",
                       held |-> scatter.points # NilRef, points |-> points,
                       xLabel |-> labels[1], yLabel |-> labels[2], err |-> r.err]
    /\ cvs' = FreshCanvas(cvs.w, cvs.ht)
    /\ UNCHANGED <<genVars, widgetVars, layoutVars, lockVars, periodicVars, heap, histogram>>

ScatterDraw ==
    /\ widget = "scatter"
    /\ LET d == DrawScatter(scatter, PointsAt(heap, scatter.points), cvs.w, cvs.ht)
       IN  /\ scatter' = d.s
           /\ cvs' = [w |-> cvs.w, ht |-> cvs.ht, drawn |-> TRUE, err |-> d.err,
                      calls |-> d.calls, maps |-> d.maps, cells |-> d.cells]
           /\ ret' = [op |-> "ScatterPlot.Draw", err |-> d.err]
    /\ UNCHANGED <<genVars, widgetVars, layoutVars, lockVars, periodicVars, heap, histogram>>

\* The container hands the widget a canvas of another size.
Resize ==
    /\ widget \in {"histogram", "scatter"}
    /\ \E w \in DotWidths, ht \in DotHeights :
        /\ <<w, ht>> # <<cvs.w, cvs.ht>>
        /\ cvs' = FreshCanvas(w, ht)
    /\ ret' = [op |-> "resize", err |-> OK]
    /\ UNCHANGED <<genVars, widgetVars, layoutVars, lockVars, periodicVars, heap,
                   histogram, scatter>>

\* The caller writes element i of a slice it passed to a widget earlier.
CallerWriteBins ==
    /\ widget = "histogram"
    /\ \E ref \in DOMAIN heap.bins :
        \E i \in 1..Len(heap.bins[ref]), v \in 0..MaxBinValue :
            /\ heap.bins[ref][i] # v
            /\ heap' = [heap EXCEPT !.bins[ref][i] = v]
            /\ ret' = [op |-> "caller.write", ref |-> ref, err |-> OK]
    /\ cvs' = FreshCanvas(cvs.w, cvs.ht)
    /\ UNCHANGED <<genVars, widgetVars, layoutVars, lockVars, periodicVars, histogram, scatter>>

CallerWritePoints ==
    /\ widget = "scatter"
    /\ \E ref \in DOMAIN heap.points :
        \E i \in 1..Len(heap.points[ref]), v \in [X : 0..MaxCoord, Y : 0..MaxCoord] :
            /\ heap.points[ref][i] # v
            /\ heap' = [heap EXCEPT !.points[ref][i] = v]
            /\ ret' = [op |-> "caller.write", ref |-> ref, err |-> OK]
    /\ cvs' = FreshCanvas(cvs.w, cvs.ht)
    /\ UNCHANGED <<genVars, widgetVars, layoutVars, lockVars, periodicVars, histogram, scatter>>

\* No slice allocated, and a canvas of 5 x 5 cells: the MinimumSize of the
\* Options of the braille widgets.
DotStart ==
    /\ heap = [bins |-> <<>>, points |-> <<>>]
    /\ histogram = NewHistogram
    /\ scatter = NewScatterPlot
    /\ cvs = FreshCanvas(5, 5)

\* --------------------------------------------------- what Table.Draw paints

\* drawRow on line curY: the fill of the line, then the text of each cell
\* up to the first that draw.Text rejects; nothing if the fill fails.
RowPainted(numCells, colWidth, curY, w, h, isHeader) ==
    LET bad == {j \in 0..(numCells - 1) :
                    ~TextFits(CellTextLen, j * colWidth + 1, curY, w, h)}
        n == IF bad = {} THEN numCells ELSE SetMin(bad)
    IN  IF curY + 1 > h THEN <<>>
        ELSE <<[kind |-> "fill", x |-> 0, y |-> curY, header |-> isHeader]>>
             \o [j \in 1..n |-> [kind |-> "text", x |-> (j - 1) * colWidth + 1,
                                 y |-> curY, header |-> isHeader]]

\* The calls Table.Draw makes on a fresh canvas w cells wide and h high, in
\* order, up to the one that fails.
Painted(t, w, h) ==
    LET numCols == NumCols(t.headers, t.rows)
        colWidth == w \div numCols
        hdr == IF t.headers > 0 THEN 1 ELSE 0
        page == Draw(t, w, h).t.currentPage
        startIndex == page * t.rowsPerPage
        endIndex == IF startIndex + t.rowsPerPage > Len(t.rows)
                    THEN Len(t.rows) ELSE startIndex + t.rowsPerPage
        header == IF hdr = 1 THEN RowPainted(t.headers, colWidth, 0, w, h, TRUE)
                  ELSE <<>>
        badRows == {i \in 1..(endIndex - startIndex) :
                        ~DrawRowOk(t.rows[startIndex + i], colWidth, hdr + i - 1, w, h)}
        lastRow == IF badRows = {} THEN endIndex - startIndex ELSE SetMin(badRows)
        RECURSIVE rowsFrom(_)
        rowsFrom(i) ==
            IF i > lastRow THEN <<>>
            ELSE RowPainted(t.rows[startIndex + i], colWidth, hdr + i - 1, w, h, FALSE)
                 \o rowsFrom(i + 1)
        prevOk == TextFits(7, 0, h - 1, w, h)
        nextOk == TextFits(7, w - 7, h - 1, w, h)
        indicatorLen == 8 + Digits(page + 1) + Digits(t.numPages)
        indicatorOk == TextFits(indicatorLen, (7 + w - 7) \div 2, h - 1, w, h)
        footer ==
            IF t.numPages > 1
            THEN (IF prevOk THEN <<[kind |-> "prev", x |-> 0, y |-> h - 1]>> ELSE <<>>)
                 \o (IF prevOk /\ nextOk
                     THEN <<[kind |-> "next", x |-> w - 7, y |-> h - 1]>> ELSE <<>>)
                 \o (IF prevOk /\ nextOk /\ indicatorOk
                     THEN <<[kind |-> "page", x |-> (7 + w - 7) \div 2, y |-> h - 1,
                             page |-> page + 1, of |-> t.numPages]>>
                     ELSE <<>>)
            ELSE <<[kind |-> "clear", x |-> 0, y |-> h - 1]>>
    IN  IF numCols = 0 THEN <<>>
        ELSE IF colWidth = 0 THEN <<>>
        ELSE IF hdr = 1 /\ ~DrawRowOk(t.headers, colWidth, 0, w, h) THEN header
        ELSE IF badRows # {} THEN header \o rowsFrom(1)
        ELSE header \o rowsFrom(1) \o footer

\* ------------------------------------------------------- periodic tasks

\* The widgets fed by a periodic recompute task.
Tasks == {"gauge", "sparkline", "bar"}

\* The value columns of the CSV files loaded: up to MaxRecords cells, each
\* a number every widget accepts, a text that is no number, or a number the
\* widgets reject.
CsvInputs == SeqsUpTo({<<"7">>, <<"x">>, <<"-", "3">>}, MaxRecords)

\* strconv.Atoi: an optional sign, then at least one digit and only digits.
Atoi(str) ==
    LET DigitChars == <<"0", "1", "2", "3", "4", "5", "6", "7", "8", "9">>
        IsDigit(c) == \E i \in 1..10 : DigitChars[i] = c
        DigitValue(c) == (CHOOSE i \in 1..10 : DigitChars[i] = c) - 1
        signed == Len(str) > 0 /\ str[1] \in {"+", "-"}
        body == IF signed THEN Tail(str) ELSE str
        RECURSIVE AtoiDigits(_, _)
        AtoiDigits(i, acc) ==
            IF i > Len(body) THEN acc
            ELSE AtoiDigits(i + 1, acc * 10 + DigitValue(body[i]))
    IN  IF Len(body) = 0 \/ \E i \in 1..Len(body) : ~IsDigit(body[i])
        THEN [err |-> TRUE, v |-> 0]
        ELSE [err |-> FALSE,
              v |-> IF signed /\ str[1] = "-"
                    THEN 0 - AtoiDigits(1, 0)
                    ELSE AtoiDigits(1, 0)]

\* The loop of createSparkline and createBarChart that stops at the first
\* record that does not parse.
ParseLoopStopsAtFailure(records) ==
    LET bad == {i \in 1..Len(records) : Atoi(records[i]).err}
        n == IF bad = {} THEN Len(records)
             ELSE (CHOOSE i \in bad : \A j \in bad : i <= j) - 1
    IN  [i \in 1..n |-> Atoi(records[i]).v]

RECURSIVE ParseLoopFrom(_, _, _)
\* The loop from record i on: a record that does not parse is skipped
\* (continue), the value of any other is appended.
ParseLoopFrom(records, i, values) ==
    IF i > Len(records) THEN values
    ELSE LET a == Atoi(records[i])
         IN  IF a.err THEN ParseLoopFrom(records, i + 1, values)
             ELSE ParseLoopFrom(records, i + 1, Append(values, a.v))

\* The loop of createSparkline and createBarChart over the records.
ParseLoop(records) == ParseLoopFrom(records, 1, <<>>)

\* gauge.Percent: the percentage must be in 0..100.
GaugePercent(p) ==
    IF p < 0 \/ p > 100 THEN "invalid percentage" ELSE OK

\* sparkline.Add: no data point may be negative.
SparklineAdd(values) ==
    IF \E i \in 1..Len(values) : values[i] < 0
    THEN "data point cannot be negative" ELSE OK

\* barchart.Values(values, max): every value must be in 0..max.
BarChartValues(values, max) ==
    IF max < 1 \/ \E i \in 1..Len(values) : values[i] < 0 \/ values[i] > max
    THEN "invalid values" ELSE OK

\* The recompute closure of a task: whether it called the widget, with what
\* argument, and the error it returns.
Recompute(t, records) ==
    IF t = "gauge"
    THEN IF Len(records) > 0 /\ ~Atoi(records[Len(records)]).err
         THEN LET val == Atoi(records[Len(records)]).v
              IN  [called |-> TRUE, arg |-> <<val>>, err |-> GaugePercent(val)]
         ELSE [called |-> FALSE, arg |-> <<>>, err |-> OK]
    ELSE LET values == ParseLoop(records)
         IN  [called |-> TRUE, arg |-> values,
              err |-> IF t = "sparkline" THEN SparklineAdd(values)
                      ELSE BarChartValues(values, 100)]

\* periodic after the closure returns: panic on an error, else back to the
\* select.
AfterFn(err) == IF err # OK THEN "panic" ELSE "select"

\* ctx.Done() of one task only.
DoneOfGaugeOnly(t) == t = "gauge" /\ ctxDone

\* ctx.Done() as seen by task t: the one context of main.
Done(t) == ctxDone

\* The ticker of task t fires; its channel holds one tick.
Tick(t) ==
    /\ proc = "running"
    /\ taskPc[t] # "exited"
    /\ ticker[t] = 0
    /\ ticker' = [ticker EXCEPT ![t] = 1]
    /\ UNCHANGED <<genVars, widgetVars, layoutVars, lockVars, dotVars, csvData, ctxDone,
                   proc, taskPc, invoked, shown, ret>>

\* select: case <-ticker.C.
SelectTick(t) ==
    /\ proc = "running"
    /\ taskPc[t] = "select"
    /\ ticker[t] = 1
    /\ ticker' = [ticker EXCEPT ![t] = 0]
    /\ taskPc' = [taskPc EXCEPT ![t] = "fn"]
    /\ invoked' = [invoked EXCEPT ![t] = 0]
    /\ ret' = [op |-> "tick", task |-> t, err |-> OK]
    /\ UNCHANGED <<genVars, widgetVars, layoutVars, lockVars, dotVars, csvData, ctxDone,
                   proc, shown>>

\* select: case <-ctx.Done(): return.
SelectDone(t) ==
    /\ proc = "running"
    /\ taskPc[t] = "select"
    /\ Done(t)
    /\ taskPc' = [taskPc EXCEPT ![t] = "exited"]
    /\ ret' = [op |-> "return", task |-> t, err |-> OK]
    /\ UNCHANGED <<genVars, widgetVars, layoutVars, lockVars, dotVars, csvData, ctxDone,
                   proc, ticker, invoked, shown>>

\* The closure runs and returns; periodic panics when it returned an error.
FnReturn(t) ==
    /\ proc = "running"
    /\ taskPc[t] = "fn"
    /\ invoked[t] < MaxInvocations
    /\ LET r == Recompute(t, csvData)
           next == AfterFn(r.err)
       IN  /\ invoked' = [invoked EXCEPT ![t] = invoked[t] + 1]
           /\ shown' = IF r.called /\ r.err = OK
                       THEN [shown EXCEPT ![t] = r.arg] ELSE shown
           /\ proc' = IF next = "panic" THEN "panicked" ELSE proc
           /\ taskPc' = IF next = "panic" THEN taskPc
                        ELSE [taskPc EXCEPT ![t] = next]
           /\ ret' = [op |-> "fn", task |-> t, called |-> r.called,
                      arg |-> r.arg, err |-> r.err]
    /\ UNCHANGED <<genVars, widgetVars, layoutVars, lockVars, dotVars, csvData, ctxDone,
                   ticker>>

\* The quitter subscriber on Esc or Ctrl-C, or the deferred cancel of main.
Cancel ==
    /\ proc = "running"
    /\ ~ctxDone
    /\ ctxDone' = TRUE
    /\ UNCHANGED <<genVars, widgetVars, layoutVars, lockVars, dotVars, csvData, proc,
                   taskPc, ticker, invoked, shown, ret>>

\* termdash.Run returns after the cancellation and main returns.
MainReturn ==
    /\ proc = "running"
    /\ ctxDone
    /\ proc' = "exited"
    /\ UNCHANGED <<genVars, widgetVars, layoutVars, lockVars, dotVars, csvData, ctxDone,
                   taskPc, ticker, invoked, shown, ret>>

\* The tasks as createWidgets starts them.
PeriodicStart ==
    /\ ctxDone = FALSE
    /\ proc = "running"
    /\ taskPc = [t \in Tasks |-> "select"]
    /\ ticker = [t \in Tasks |-> 0]
    /\ invoked = [t \in Tasks |-> 0]
    /\ shown = [t \in Tasks |-> <<>>]

\* ------------------------------------------- generate, then load

\* strings are sequences of these parts; the empty string is <<>>.
SourcePaths ==
    SeqsUpTo({"http://", "https://", "host/", "data", ".csv", ".json"}, MaxPathLen)

\* No data source selected yet.
NoDataSource == [kind |-> "none", Path |-> <<>>, URL |-> <<>>]

\* GenerateDashboardConfig: the source type is taken from the end of the
\* path, then from its start; loaded tells whether dataSource.Load
\* succeeds. The widgets depend on the data loaded and are left out.
GenerateDashboardConfig(path, loaded) ==
    LET HasSuffix(s, x) == Len(s) > 0 /\ s[Len(s)] = x
        HasPrefix(s, x) == Len(s) > 0 /\ s[1] = x
        sourceType ==
            IF HasSuffix(path, ".csv") THEN "csv"
            ELSE IF HasSuffix(path, ".json") THEN "json"
            ELSE IF HasPrefix(path, "http://") \/ HasPrefix(path, "https://")
            THEN "api"
            ELSE "system"
        sourceTitle == IF sourceType = "system" THEN <<"System Metrics Dashboard">>
                       ELSE <<"Dashboard for ">> \o path
        dataSource0 ==
            CASE sourceType \in {"csv", "json"} ->
                    [kind |-> sourceType, Path |-> path, URL |-> <<>>]
              [] sourceType = "api" -> [kind |-> "api", Path |-> <<>>, URL |-> path]
              [] OTHER -> [kind |-> "system", Path |-> <<>>, URL |-> <<>>]
    IN  IF ~loaded
        THEN [err |-> "error loading data", dataSource |-> dataSource0,
              config |-> [Title |-> <<>>, Refresh |-> 0,
                          Source |-> [Type |-> "", Path |-> <<>>, URL |-> <<>>]]]
        ELSE [err |-> OK, dataSource |-> dataSource0,
              config |-> [Title |-> sourceTitle, Refresh |-> 5,
                          Source |-> [Type |-> sourceType, Path |-> path,
                                      URL |-> <<>>]]]

\* LoadConfigAndData on the document read from the config file: the keys
\* type, path and url of source are unmarshalled, a missing key leaves the
\* empty string, and the data source is selected by the type.
LoadConfigAndData(doc, loaded) ==
    LET Field(k) == IF k \in DOMAIN doc THEN doc[k] ELSE <<>>
        typ == IF "type" \in DOMAIN doc THEN doc["type"] ELSE ""
        source == [Type |-> typ, Path |-> Field("path"), URL |-> Field("url")]
        selected ==
            CASE source.Type \in {"csv", "json"} ->
                    [kind |-> source.Type, Path |-> source.Path, URL |-> <<>>]
              [] source.Type = "api" ->
                    [kind |-> "api", Path |-> <<>>, URL |-> source.URL]
              [] source.Type = "system" ->
                    [kind |-> "system", Path |-> <<>>, URL |-> <<>>]
              [] OTHER -> NoDataSource
    IN  IF selected = NoDataSource
        THEN [err |-> "Unsupported data source type", dataSource |-> selected]
        ELSE IF ~loaded THEN [err |-> "Load", dataSource |-> selected]
        ELSE [err |-> OK, dataSource |-> selected]

\* main with --generate: the configuration is generated, marshalled and
\* written to config.yml; the keys path and url are omitted when empty. On
\* an error the process exits and nothing is written.
GenerateCall ==
    \E loaded \in BOOLEAN :
        LET r == GenerateDashboardConfig(sourcePath, loaded)
            src == r.config.Source
            keys == {"type"} \cup (IF src.Path # <<>> THEN {"path"} ELSE {})
                             \cup (IF src.URL # <<>> THEN {"url"} ELSE {})
            doc == [k \in keys |-> CASE k = "type" -> src.Type
                                     [] k = "path" -> src.Path
                                     [] k = "url" -> src.URL]
        IN  /\ ret.op = "none"
            /\ configYml' = IF r.err = OK THEN [exists |-> TRUE, doc |-> doc]
                            ELSE configYml
            /\ ret' = [op |-> "GenerateDashboardConfig", err |-> r.err]
            /\ UNCHANGED <<widgetVars, layoutVars, lockVars, periodicVars, dotVars,
                           sourcePath, dataSource>>

\* main goes on to LoadConfigAndData on the file written.
LoadConfigAndDataCall ==
    \E loaded \in BOOLEAN :
        LET r == LoadConfigAndData(configYml.doc, loaded)
        IN  /\ ret.op = "GenerateDashboardConfig"
            /\ ret.err = OK
            /\ configYml.exists
            /\ dataSource' = r.dataSource
            /\ ret' = [op |-> "LoadConfigAndData", err |-> r.err]
            /\ UNCHANGED <<widgetVars, layoutVars, lockVars, periodicVars, dotVars,
                           sourcePath, configYml>>

\* ------------------------------------------------------- specifications

NoCall == [op |-> "none", err |-> OK]

\* The state of every part before anything is called.
Start ==
    /\ funnel = NewFunnel
    /\ pie = NewPieChart
    /\ radar = NewRadar
    /\ table = NilTable
    /\ widgets = <<>>
    /\ layout = NoLayout
    /\ mu = [c \in Comps |-> "free"]
    /\ pc = [c \in Comps |-> [r \in Roles |-> "idle"]]
    /\ data = [c \in Comps |-> "stable"]
    /\ ret = NoCall
    /\ configYml = [exists |-> FALSE, doc |-> <<>>]
    /\ dataSource = NoDataSource
    /\ PeriodicStart

InitSegment ==
    /\ csvData = <<>>
    /\ sourcePath = <<>>
    /\ DotStart
    /\ widget \in {"funnel", "pie"}
    /\ config = <<>>
    /\ Start

NextSegment ==
    \/ FunnelValuesCall
    \/ FunnelDraw
    \/ PieChartValuesCall
    \/ PieChartDraw

SpecSegment == InitSegment /\ [][NextSegment]_vars

InitRadar ==
    /\ csvData = <<>>
    /\ sourcePath = <<>>
    /\ DotStart
    /\ widget = "radar"
    /\ config = <<>>
    /\ Start

NextRadar ==
    \/ RadarSetValuesCall
    \/ RadarDraw

SpecRadar == InitRadar /\ [][NextRadar]_vars

InitTable ==
    /\ csvData = <<>>
    /\ sourcePath = <<>>
    /\ DotStart
    /\ widget = "table"
    /\ config = <<>>
    /\ Start

NextTable ==
    \/ NewTableCall
    \/ TableDraw
    \/ TableMouse
    \/ TableKeyboard
    \/ TableOptions
    \/ PrevButtonCallback
    \/ NextButtonCallback

SpecTable == InitTable /\ [][NextTable]_vars

InitLayout ==
    /\ csvData = <<>>
    /\ sourcePath = <<>>
    /\ DotStart
    /\ widget = "none"
    /\ config \in Configs
    /\ Start

NextLayout ==
    \/ CreateWidgetsCall
    \/ DynamicGridLayoutCall

SpecLayout == InitLayout /\ [][NextLayout]_vars

InitLock ==
    /\ csvData = <<>>
    /\ sourcePath = <<>>
    /\ DotStart
    /\ widget = "none"
    /\ config = <<>>
    /\ Start

NextLock ==
    \E c \in Comps :
        \/ \E role \in Roles : Call(c, role)
        \/ \E role \in Roles : Lock(c, role)
        \/ UpdateWrite(c)
        \/ UpdateWriteLast(c)
        \/ DrawRead(c)
        \/ \E role \in Roles : Unlock(c, role)

SpecLock == InitLock /\ [][NextLock]_vars

InitPeriodic ==
    /\ widget = "none"
    /\ config = <<>>
    /\ csvData \in CsvInputs
    /\ sourcePath = <<>>
    /\ DotStart
    /\ Start

NextPeriodic ==
    \/ \E t \in Tasks : Tick(t)
    \/ \E t \in Tasks : SelectTick(t)
    \/ \E t \in Tasks : SelectDone(t)
    \/ \E t \in Tasks : FnReturn(t)
    \/ Cancel
    \/ MainReturn

\* Every closure returns, and a select whose Done case is ready again and
\* again takes it at some point: Go picks among the ready cases at random.
FairPeriodic ==
    \A t \in Tasks : WF_vars(FnReturn(t)) /\ SF_vars(SelectDone(t))

SpecPeriodic == InitPeriodic /\ [][NextPeriodic]_vars

\* The same tasks over two value columns, one that every widget accepts and
\* one that every widget rejects, with the fairness above.
InitPeriodicFair ==
    /\ InitPeriodic
    /\ csvData \in {<<<<"7">>>>, <<<<"-", "3">>>>}

SpecPeriodicFair == InitPeriodicFair /\ [][NextPeriodic]_vars /\ FairPeriodic

InitDots ==
    /\ widget \in {"histogram", "scatter"}
    /\ config = <<>>
    /\ csvData = <<>>
    /\ sourcePath = <<>>
    /\ heap \in {[bins |-> [s1 |-> b], points |-> [p1 |-> <<>>]] : b \in BinSlices}
            \cup {[bins |-> [s1 |-> <<>>], points |-> [p1 |-> p]] : p \in PointSlices}
    /\ (widget = "histogram") = (heap.points.p1 = <<>>)
    /\ histogram = NewHistogram
    /\ scatter = NewScatterPlot
    /\ \E w \in DotWidths, ht \in DotHeights : cvs = FreshCanvas(w, ht)
    /\ Start

NextDots ==
    \/ HistogramSetBinsCall
    \/ HistogramSetAlertColorCall
    \/ HistogramDraw
    \/ ScatterSetPointsCall
    \/ ScatterDraw
    \/ Resize

SpecDots == InitDots /\ [][NextDots]_vars

\* A caller that keeps the slice it passed to SetBins or SetPoints and
\* writes to it afterwards.
InitAlias ==
    /\ widget \in {"histogram", "scatter"}
    /\ config = <<>>
    /\ csvData = <<>>
    /\ sourcePath = <<>>
    /\ heap \in {[bins |-> [s1 |-> b], points |-> [p1 |-> <<>>]] :
                    b \in SeqsUpTo(0..MaxBinValue, MaxShortBins)}
            \cup {[bins |-> [s1 |-> <<>>], points |-> [p1 |-> p]] : p \in PointSlices}
    /\ (widget = "histogram") = (heap.points.p1 = <<>>)
    /\ histogram = NewHistogram
    /\ scatter = NewScatterPlot
    /\ cvs = FreshCanvas(SetMax(DotWidths), SetMax(DotHeights))
    /\ Start

NextAlias ==
    \/ HistogramSetBinsCall
    \/ HistogramDraw
    \/ ScatterSetPointsCall
    \/ ScatterDraw
    \/ CallerWriteBins
    \/ CallerWritePoints

SpecAlias == InitAlias /\ [][NextAlias]_vars

\* One of the six widgets, updated and drawn. The funnel, the pie chart and
\* the radar are set once and then drawn: their Draw writes no field, so
\* further updates add no state that Draw treats differently.
InitDraw ==
    \/ InitDots
    \/ /\ widget \in {"funnel", "pie", "radar", "table"}
       /\ config = <<>>
       /\ csvData = <<>>
       /\ sourcePath = <<>>
       /\ DotStart
       /\ Start

NextDraw ==
    \/ ret.op = "none" /\ FunnelValuesCall
    \/ FunnelDraw
    \/ ret.op = "none" /\ PieChartValuesCall
    \/ PieChartDraw
    \/ widget = "radar" /\ ret.op = "none" /\ RadarSetValuesCall
    \/ widget = "radar" /\ RadarDraw
    \/ widget = "table" /\ NewTableCall
    \/ widget = "table" /\ TableDraw
    \/ widget = "table" /\ PrevButtonCallback
    \/ widget = "table" /\ NextButtonCallback
    \/ HistogramSetBinsCall
    \/ HistogramSetAlertColorCall
    \/ HistogramDraw
    \/ ScatterSetPointsCall
    \/ ScatterDraw
    \/ Resize

SpecDraw == InitDraw /\ [][NextDraw]_vars

\* ---------------------------------------------------------------- claims

\* C1: whenever Funnel.Values or PieChart.Values returns an error, the
\* stored values, colors and total are what they were before the call.
C1_FailedValuesKeepsState ==
    [][(ret'.op \in {"Funnel.Values", "PieChart.Values"} /\ ret'.err # OK)
        => (funnel' = funnel /\ pie' = pie)]_vars

\* C2: Radar.SetValues succeeds if and only if the map has at least 3
\* entries, max > 0 and every value lies in [0, max]; when it fails the
\* stored values are unchanged.
C2_SetValuesSucceedsIffValid ==
    [][ret'.op = "Radar.SetValues" =>
        LET v == ret'.vals
            valid == /\ ~v.isNil
                     /\ Cardinality(DOMAIN v.Data) >= 3
                     /\ ~v.Max.nan /\ v.Max.v > 0
                     /\ \A k \in DOMAIN v.Data :
                            /\ ~v.Data[k].nan
                            /\ 0 <= v.Data[k].v
                            /\ v.Data[k].v <= v.Max.v
        IN  /\ (ret'.err = OK) <=> valid
            /\ (ret'.err # OK) => (radar'.values = radar.values)]_vars

C4_NewTableSucceedsIffRowsMatch ==
    ret.op = "NewTable" =>
        LET want == IF ret.headers > 0 THEN ret.headers
                    ELSE IF Len(ret.rows) > 0 THEN ret.rows[1] ELSE 0
            match == \A i \in 1..Len(ret.rows) : ret.rows[i] = want
        IN  /\ (ret.err = OK) <=> match
            /\ (ret.err = OK) <=> ~table.isNil

\* A table without headers rejected for its third row.
C4_Witness ==
    /\ ret.op = "NewTable"
    /\ ret.err # OK
    /\ ret.headers = 0
    /\ ret.rows = <<2, 2, 1>>
    /\ table.isNil

\* C5: in every state of a Table rowsPerPage >= 1, the page count is
\* ceil(rowCount / rowsPerPage), and 0 <= currentPage < pageCount, or the
\* page count and the current page are 0 when there are no rows.
C5_PaginationInvariant ==
    ~table.isNil =>
        LET n == Len(table.rows)
            rpp == table.rowsPerPage
            np == table.numPages
        IN  /\ rpp >= 1
            /\ np * rpp >= n
            /\ n > 0 => (np - 1) * rpp < n
            /\ n = 0 => np = 0
            /\ \/ 0 <= table.currentPage /\ table.currentPage < np
               \/ np = 0 /\ table.currentPage = 0 /\ n = 0

\* 12 rows at 5 per page: three pages, the last one reached by a click.
C5_Witness ==
    /\ ~table.isNil
    /\ ret.op = "Table.Mouse"
    /\ Len(table.rows) = 12
    /\ table.rowsPerPage = 5
    /\ table.numPages = 3
    /\ table.currentPage = 2

\* C6: a click on the next region moves currentPage from p to p+1 when
\* p+1 < pageCount and changes nothing on the last page; a click on the prev
\* region moves it from p to p-1 when p > 0 and changes nothing on page 0.
C6_ClickMovesOnePage ==
    [][(ret'.op = "Table.Mouse" /\ ret'.button > 0) =>
        LET p == table.currentPage
        IN  /\ ret'.inNext =>
                table'.currentPage = IF p + 1 < table.numPages THEN p + 1 ELSE p
            /\ ret'.inPrev =>
                table'.currentPage = IF p > 0 THEN p - 1 ELSE p]_vars

\* C7: a Mouse event outside both rectangles, every Keyboard event, every
\* Options call and every Draw leave currentPage unchanged.
C7_OnlyRegionClicksChangePage ==
    [][(\/ ret'.op = "Table.Mouse" /\ ~ret'.inPrev /\ ~ret'.inNext
        \/ ret'.op \in {"Table.Keyboard", "Table.Options", "Table.Draw"})
        => table'.currentPage = table.currentPage]_vars

\* A click outside both rectangles of a drawn, paginated table on page 1.
C7_Witness ==
    /\ ret.op = "Table.Mouse"
    /\ ret.button > 0
    /\ ~ret.inPrev /\ ~ret.inNext
    /\ table.numPages > 1
    /\ table.nextButtonRect # ZeroRect
    /\ table.currentPage = 1

\* C8: the packer partitions the widget list into consecutive non-empty
\* rows, each widget 30 wide if it is a pie, donut, gauge or radar and 50
\* otherwise; no row is wider than 100 and every row but the last is closed
\* only because the next widget would make it wider than 100.
C8_RowsPartitionWidgetList ==
    (ret.op = "dynamicGridLayout" /\ layout.err = OK) =>
        LET rows == layout.rows
            list == layout.widgetList
            width(i) == IF list[i].typ \in {"pie", "donut", "gauge", "radar"}
                        THEN 30 ELSE 50
            \* the number of widgets in the rows before row r
            before[r \in 1..(Len(rows) + 1)] ==
                IF r = 1 THEN 0 ELSE before[r - 1] + Len(rows[r - 1].cols)
            rowSum(r) ==
                LET cols == rows[r].cols
                    acc[k \in 0..Len(cols)] ==
                        IF k = 0 THEN 0 ELSE acc[k - 1] + cols[k].widthPerc
                IN  acc[Len(cols)]
        IN  /\ before[Len(rows) + 1] = Len(list)
            /\ \A r \in 1..Len(rows) :
                /\ Len(rows[r].cols) > 0
                /\ \A k \in 1..Len(rows[r].cols) :
                    /\ rows[r].cols[k].widget = list[before[r] + k].widget
                    /\ rows[r].cols[k].widthPerc = width(before[r] + k)
                /\ rowSum(r) <= 100
                /\ r < Len(rows) => rowSum(r) + width(before[r + 1] + 1) > 100

\* Widths 50, 30, 50, 30, 50 packed as [50, 30], [50, 30], [50].
C8_Witness ==
    /\ ret.op = "dynamicGridLayout"
    /\ Len(config) = 5
    /\ \A i \in 1..5 : config[i].typ = IF i \in {2, 4} THEN "radar" ELSE "bar"
    /\ Len(layout.rows) = 3
    /\ Len(layout.rows[1].cols) = 2
    /\ Len(layout.rows[2].cols) = 2
    /\ Len(layout.rows[3].cols) = 1

\* C9: every widget row gets (100 - 5) div (number of rows), the title row
\* and the widget rows sum to at most 100 and every row gets at least 1.
C9_RowHeights ==
    (ret.op = "dynamicGridLayout" /\ layout.err = OK) =>
        \A r \in 1..Len(layout.rows) :
            /\ layout.rows[r].heightPerc = 95 \div Len(layout.rows)
            /\ 5 + Len(layout.rows) * layout.rows[r].heightPerc <= 100
            /\ layout.rows[r].heightPerc >= 1

\* C10: an update and a Draw of one widget are never in their critical
\* sections together, a Draw reads no partly written state, and a caller
\* waits only for the other caller of its own widget.
C10_DrawAndUpdateExclusive ==
    \A c \in Comps :
        /\ ~(/\ pc[c]["update"] \in {"write", "writeLast", "unlock"}
             /\ pc[c]["draw"] \in {"read", "unlock"})
        /\ pc[c]["draw"] = "read" => data[c] = "stable"
        /\ (/\ pc[c]["update"] = "lock"
            /\ pc[c]["draw"] \notin {"read", "unlock"}) => ENABLED Lock(c, "update")
        /\ (/\ pc[c]["draw"] = "lock"
            /\ pc[c]["update"] \notin {"write", "writeLast", "unlock"})
                => ENABLED Lock(c, "draw")

\* The histogram's Draw waits for its update while the table is drawn.
C10_Witness ==
    /\ pc["histogram"]["update"] = "writeLast"
    /\ pc["histogram"]["draw"] = "lock"
    /\ pc["table"]["draw"] = "read"
    /\ pc["radar"]["update"] = "write"

\* C11: when the recompute closure of a periodic task returns an error, the
\* process keeps running, the task stays in its loop and every widget keeps
\* the state it showed before.
C11_ErrorKeepsTaskRunning ==
    [][(invoked' # invoked /\ ret'.op = "fn" /\ ret'.err # OK)
       => /\ proc' = "running"
          /\ taskPc'[ret'.task] = "select"
          /\ shown' = shown]_vars

\* C12: a task leaves its loop only once the one shared cancellation has
\* fired, and once it has fired every task exits (or the process has ended).
C12_CancelStopsEveryTask ==
    /\ [](\A t \in Tasks : taskPc[t] = "exited" => ctxDone)
    /\ (ctxDone ~> (proc # "running" \/ \A t \in Tasks : taskPc[t] = "exited"))

C12_Witness ==
    /\ ctxDone
    /\ proc = "running"
    /\ \A t \in Tasks : taskPc[t] = "exited"

C14_CallerWriteLeavesWidget ==
    [][(ret'.op = "caller.write" /\ heap' # heap)
       => /\ BinsAt(heap', histogram'.bins) = BinsAt(heap, histogram.bins)
          /\ PointsAt(heap', scatter'.points) = PointsAt(heap, scatter.points)
          /\ DrawHistogram(histogram', BinsAt(heap', histogram'.bins), cvs.w, cvs.ht).cells
                 = DrawHistogram(histogram, BinsAt(heap, histogram.bins), cvs.w, cvs.ht).cells
          /\ DrawScatter(scatter', PointsAt(heap', scatter'.points), cvs.w, cvs.ht).cells
                 = DrawScatter(scatter, PointsAt(heap, scatter.points), cvs.w, cvs.ht).cells]_vars


\* C15: a second Draw of a widget whose state nobody changed, on a fresh
\* canvas of the same size, paints what the first painted and returns what
\* the first returned, and the first leaves what Draw reads as it was: in
\* the table only the button rectangles are written.
C15_DrawIdempotent ==
    /\ [](/\ (widget = "table" /\ ~table.isNil)
              => \A w \in DrawWidths, h \in DrawHeights :
                     LET d1 == Draw(table, w, h)
                         d2 == Draw(d1.t, w, h)
                     IN  /\ d2.err = d1.err
                         /\ d2.t = d1.t
                         /\ Painted(d1.t, w, h) = Painted(table, w, h)
                         /\ [d1.t EXCEPT !.prevButtonRect = table.prevButtonRect,
                                         !.nextButtonRect = table.nextButtonRect] = table
          /\ widget = "histogram"
              => LET d1 == DrawHistogram(histogram, BinsAt(heap, histogram.bins),
                                         cvs.w, cvs.ht)
                     d2 == DrawHistogram(d1.h, BinsAt(heap, d1.h.bins), cvs.w, cvs.ht)
                 IN  d2.err = d1.err /\ d2.cells = d1.cells /\ d1.h = histogram
          /\ widget = "scatter"
              => LET d1 == DrawScatter(scatter, PointsAt(heap, scatter.points),
                                       cvs.w, cvs.ht)
                     d2 == DrawScatter(d1.s, PointsAt(heap, d1.s.points), cvs.w, cvs.ht)
                 IN  d2.err = d1.err /\ d2.cells = d1.cells /\ d1.s = scatter)
    /\ [][(ret'.op \in {"Funnel.Draw", "PieChart.Draw", "Radar.Draw"})
          => /\ funnel' = funnel /\ pie' = pie /\ radar' = radar
             /\ ret'.op = "Funnel.Draw" => ret'.painted = SegmentsDrawn(funnel')
             /\ ret'.op = "PieChart.Draw" => ret'.painted = SegmentsDrawn(pie')
             /\ ret'.op = "Radar.Draw" => ret'.painted = RadarDrawn(radar')
             /\ ret'.op = "Funnel.Draw"
                    => ret'.err = DrawFunnel(funnel', cvs'.w, cvs'.ht).err
             /\ ret'.op = "PieChart.Draw"
                    => ret'.err = DrawPieChart(pie', cvs'.w, cvs'.ht).err
             /\ ret'.op = "Radar.Draw"
                    => ret'.err = DrawRadar(radar', cvs'.w, cvs'.ht).err]_vars

\* The second page of a table drawn with its buttons and page indicator.
C15_Witness ==
    /\ widget = "table"
    /\ ret.op = "Table.Draw"
    /\ ret.err = OK
    /\ table.currentPage > 0
    /\ table.prevButtonRect # ZeroRect
    /\ \E w \in DrawWidths, h \in DrawHeights :
           \E k \in 1..Len(Painted(table, w, h)) : Painted(table, w, h)[k].kind = "page"

\* C16: after Histogram.Draw every dot of the bar of bin alertBin is shown
\* in the alert colour and every dot of any other bar in the bar colour:
\* the cell of each dot set has the colour the dot was set with.
C16_BarDotsKeepTheirColour ==
    (widget = "histogram" /\ cvs.drawn)
        => \A k \in 1..Len(cvs.calls) :
               LET pt == <<cvs.calls[k].bx \div 2, cvs.calls[k].by \div 4>>
               IN  pt \in DOMAIN cvs.cells => cvs.cells[pt].col = cvs.calls[k].col

\* C17: SetBins and SetPoints return no error and every field they take is
\* the argument of the call, whatever the widget held before.
C17_SettersReplaceState ==
    /\ ret.op = "Histogram.SetBins"
           => /\ ret.err = OK
              /\ histogram.bins = ret.bins
              /\ histogram.min = ret.min
              /\ histogram.max = ret.max
              /\ histogram.labels = ret.labels
              /\ histogram.alertBin = ret.alertBin
    /\ ret.op = "ScatterPlot.SetPoints"
           => /\ ret.err = OK
              /\ scatter.points = ret.points
              /\ scatter.xLabel = ret.xLabel
              /\ scatter.yLabel = ret.yLabel

\* SetBins without labels on a histogram that held labels.
C17_Witness ==
    /\ ret.op = "Histogram.SetBins"
    /\ ret.held
    /\ ret.labels = NilRef
    /\ ret.alertBin = 0 - 1
    /\ Len(BinsAt(heap, histogram.bins)) > 0

\* C18: the dot (bx, by) belongs to the cell (bx div 2, by div 4); the eight
\* positions of a cell have eight distinct bits; the mask of a cell is the
\* union of the bits of the dots set in it, and its colour is the colour of
\* the last dot set in it.
C18_DotCanvas ==
    cvs.drawn =>
        LET calls == cvs.calls
            cellOf(d) == <<d.bx \div 2, d.by \div 4>>
            isSet(pt, sx, sy) ==
                \E k \in 1..Len(calls) :
                    /\ calls[k].bx = 2 * pt[1] + sx
                    /\ calls[k].by = 4 * pt[2] + sy
            bit(pt, sx, sy) == IF isSet(pt, sx, sy) THEN dotMask(sx, sy) ELSE 0
            last(pt) == SetMax({k \in 1..Len(calls) : cellOf(calls[k]) = pt})
            subs == (0..1) \X (0..3)
        IN  /\ \A k \in 1..Len(calls) : calls[k].bx >= 0 /\ calls[k].by >= 0
            /\ \A a \in subs, b \in subs :
                   a # b => dotMask(a[1], a[2]) # dotMask(b[1], b[2])
            /\ \A a \in subs :
                   dotMask(a[1], a[2]) \in {1, 2, 4, 8, 16, 32, 64, 128}
            /\ DOMAIN cvs.maps.brailleMap = {cellOf(calls[k]) : k \in 1..Len(calls)}
            /\ \A pt \in DOMAIN cvs.maps.brailleMap :
                   /\ cvs.maps.brailleMap[pt] =
                          BrailleEmpty
                          + bit(pt, 0, 0) + bit(pt, 0, 1) + bit(pt, 0, 2) + bit(pt, 0, 3)
                          + bit(pt, 1, 0) + bit(pt, 1, 1) + bit(pt, 1, 2) + bit(pt, 1, 3)
                   /\ cvs.maps.colorMap[pt] = calls[last(pt)].col

\* A cell that holds the dots (0, 2) and (0, 3) of two bars of different
\* colours.
C18_Witness ==
    /\ cvs.drawn
    /\ \E j \in 1..Len(cvs.calls), k \in 1..Len(cvs.calls) :
        /\ j < k
        /\ cvs.calls[j].bx \div 2 = cvs.calls[k].bx \div 2
        /\ cvs.calls[j].by \div 4 = cvs.calls[k].by \div 4
        /\ cvs.calls[j].bx % 2 = 0
        /\ cvs.calls[j].by % 4 = 3
        /\ cvs.calls[k].by % 4 = 2
        /\ cvs.calls[j].col # cvs.calls[k].col

\* C19: Draw of the histogram and of the scatter plot returns no error and
\* writes exactly the cells of the canvas that hold at least one dot set;
\* a dot beyond the bounds is not set.
C19_OnlyDotCellsWritten ==
    cvs.drawn =>
        /\ cvs.err = OK
        /\ DOMAIN cvs.cells =
               {pt \in (0..(cvs.w - 1)) \X (0..(cvs.ht - 1)) :
                    \E k \in 1..Len(cvs.calls) :
                        /\ cvs.calls[k].bx \div 2 = pt[1]
                        /\ cvs.calls[k].by \div 4 = pt[2]}
        /\ \A pt \in DOMAIN cvs.cells : cvs.cells[pt].r = cvs.maps.brailleMap[pt]
        /\ \A k \in 1..Len(cvs.calls) :
               /\ 0 <= cvs.calls[k].bx /\ cvs.calls[k].bx < cvs.w * 2
               /\ 0 <= cvs.calls[k].by /\ cvs.calls[k].by < cvs.ht * 4

\* A histogram whose last bars lie beyond the right edge of the canvas, and
\* a canvas with cells written and cells left alone.
C19_Witness ==
    /\ widget = "histogram"
    /\ cvs.drawn
    /\ 4 + Len(BinsAt(heap, histogram.bins)) - 1 >= cvs.w * 2
    /\ BinsAt(heap, histogram.bins)[Len(BinsAt(heap, histogram.bins))] > 0
    /\ DOMAIN cvs.cells # {}
    /\ DOMAIN cvs.cells # (0..(cvs.w - 1)) \X (0..(cvs.ht - 1))

\* C20: Draw of a histogram with bins or of a scatter plot with points on a
\* canvas whose dot grid is not larger than the padding reports an error.
C20_TooSmallIsAnError ==
    (/\ cvs.drawn
     /\ cvs.w * 2 - 8 <= 0 \/ cvs.ht * 4 - 8 <= 0
     /\ \/ widget = "histogram" /\ Len(BinsAt(heap, histogram.bins)) > 0
        \/ widget = "scatter" /\ Len(PointsAt(heap, scatter.points)) > 0)
        => cvs.err # OK

\* The braille widgets Funnel, PieChart and Radar, each set at most once and
\* drawn on a region of the MinimumSize 5 x 5, square in dots (10 x 5),
\* wider than tall in dots (20 x 5) or taller than wide (6 x 7).
InitRegion ==
    /\ widget \in {"funnel", "pie", "radar"}
    /\ config = <<>>
    /\ csvData = <<>>
    /\ sourcePath = <<>>
    /\ heap = [bins |-> <<>>, points |-> <<>>]
    /\ histogram = NewHistogram
    /\ scatter = NewScatterPlot
    /\ cvs \in {FreshCanvas(5, 5), FreshCanvas(10, 5), FreshCanvas(20, 5),
                FreshCanvas(6, 7)}
    /\ Start

NextRegion ==
    \/ ret.op = "none" /\ FunnelValuesCall
    \/ FunnelDraw
    \/ ret.op = "none" /\ PieChartValuesCall
    \/ PieChartDraw
    \/ widget = "radar" /\ ret.op = "none" /\ RadarSetValuesCall
    \/ widget = "radar" /\ RadarDraw

SpecRegion == InitRegion /\ [][NextRegion]_vars

InitGenerate ==
    /\ csvData = <<>>
    /\ sourcePath \in SourcePaths
    /\ DotStart
    /\ widget = "none"
    /\ config = <<>>
    /\ Start

NextGenerate ==
    \/ GenerateCall
    \/ LoadConfigAndDataCall

SpecGenerate == InitGenerate /\ [][NextGenerate]_vars

\* C21: a Draw that succeeds paints the header, if there is one, on line 0,
\* then the rows of the current page on the following lines, one each, as
\* many as min(currentPage * rowsPerPage + rowsPerPage, rowCount) minus
\* currentPage * rowsPerPage; with more than one page no header and no row
\* is painted on the bottom line of the canvas.
C21_PaintsPageAboveControls ==
    ~table.isNil =>
        \A w \in DrawWidths, h \in DrawHeights :
            Draw(table, w, h).err = OK =>
                LET p == Painted(table, w, h)
                    hdr == IF table.headers > 0 THEN 1 ELSE 0
                    start == table.currentPage * table.rowsPerPage
                    end == IF start + table.rowsPerPage > Len(table.rows)
                           THEN Len(table.rows) ELSE start + table.rowsPerPage
                    fills == SelectSeq(p, LAMBDA st : st.kind = "fill")
                IN  /\ Len(fills) = hdr + (end - start)
                    /\ \A k \in 1..Len(fills) :
                           /\ fills[k].y = k - 1
                           /\ fills[k].header = (hdr = 1 /\ k = 1)
                    /\ table.numPages > 1 =>
                           \A k \in 1..Len(fills) : fills[k].y # h - 1

\* C22: the circle Radar.Draw draws and the outer ring of PieChart.Draw have
\* the radius max(1, min(w, h) / 2 - 2), with w and h the sides of the
\* region in dots (2 per cell column, 4 per cell row), whatever the shape of
\* the region.
C22_RadiusOfShorterSide ==
    LET w == cvs.w * 2
        h == cvs.ht * 4
        half == GoDiv(IF w < h THEN w ELSE h, 2) - 2
        radius == IF half < 1 THEN 1 ELSE half
    IN  /\ (ret.op = "Radar.Draw" /\ ret.painted # NilValues)
                => ret.radius = radius
        /\ (ret.op = "PieChart.Draw" /\ ret.painted # <<>>)
                => (ret.radiusX = radius /\ ret.radiusY = radius)

\* C23: a Draw of a component that has nothing to render returns nil and
\* changes no cell: a ScatterPlot without points, a Histogram without bins,
\* a Funnel or PieChart whose total is 0, a Radar whose values were never
\* set by a successful SetValues.
C23_NothingToRenderDrawsNothing ==
    /\ (ret.op = "Funnel.Draw" /\ funnel.total = 0)
            => (ret.err = OK /\ ret.lines = <<>>)
    /\ (ret.op = "PieChart.Draw" /\ pie.total = 0)
            => (ret.err = OK /\ ~DrawPieChart(pie, cvs.w, cvs.ht).drawn)
    /\ (ret.op = "Radar.Draw" /\ radar.values.isNil)
            => (ret.err = OK /\ ~ret.drawn)
    /\ (ret.op = "Histogram.Draw" /\ Len(BinsAt(heap, histogram.bins)) = 0)
            => (cvs.err = OK /\ cvs.cells = <<>> /\ cvs.maps = NoDots)
    /\ (ret.op = "ScatterPlot.Draw" /\ Len(PointsAt(heap, scatter.points)) = 0)
            => (cvs.err = OK /\ cvs.cells = <<>> /\ cvs.maps = NoDots)

\* A funnel whose values were set to zeros, drawn.
C23_Witness ==
    /\ ret.op = "Funnel.Draw"
    /\ funnel.total = 0
    /\ Len(funnel.values) > 0
    /\ ret.lines = <<>>

\* C24: whenever Draw runs on a Funnel or a PieChart, after any sequence of
\* successful and failed Values calls, the stored total is the sum of the
\* stored values and every stored value is >= 0.
C24_DrawSeesConsistentTotal ==
    LET RECURSIVE Sum(_)
        Sum(s) == IF s = <<>> THEN 0 ELSE Head(s) + Sum(Tail(s))
        Consistent(s) == /\ s.total = Sum(s.values)
                         /\ \A i \in 1..Len(s.values) : s.values[i] >= 0
    IN  /\ ret.op = "Funnel.Draw" => Consistent(funnel)
        /\ ret.op = "PieChart.Draw" => Consistent(pie)

\* C25: for every accepted value sequence with total > 0 and every region
\* of at least 5 x 5 cells, every scan line Funnel.Draw emits lies inside
\* the dot grid of the region, so Draw does not fail.
C25_FunnelLinesInsideRegion ==
    (/\ ret.op = "Funnel.Draw"
     /\ funnel.total > 0
     /\ \A i \in 1..Len(funnel.values) : funnel.values[i] >= 0
     /\ cvs.w >= 5 /\ cvs.ht >= 5)
        => /\ ret.err = OK
           /\ \A k \in 1..Len(ret.lines) :
                  /\ ret.lines[k].y >= 0 /\ ret.lines[k].y < cvs.ht * 4
                  /\ ret.lines[k].x0 >= 0 /\ ret.lines[k].x1 < cvs.w * 2

\* C26: on a region at least as large as the minimum size Options reports,
\* a Draw that succeeds leaves the header and every row of the current page
\* visible: the pagination line (numPages > 1) and the clearing of the
\* bottom line (numPages <= 1) touch no line painted earlier in that Draw.
C26_FooterSparesPaintedLines ==
    ~table.isNil =>
        \A w \in DrawWidths, h \in DrawHeights :
            (/\ w >= Options(table).X
             /\ h >= Options(table).Y
             /\ Draw(table, w, h).err = OK)
                => LET p == Painted(table, w, h)
                   IN  \A j \in 1..Len(p), k \in 1..Len(p) :
                           (/\ j < k
                            /\ p[j].kind \in {"fill", "text"}
                            /\ p[k].kind \in {"prev", "next", "page", "clear"})
                               => p[k].y # p[j].y

\* C27: one Mouse event moves currentPage by at most one page, whatever the
\* button value above 0 and wherever the position is, also where the prev
\* and next rectangles overlap; an event with button 0 never moves it.
C27_MouseMovesAtMostOnePage ==
    [][ret'.op = "Table.Mouse"
        => /\ table'.currentPage - table.currentPage \in {0 - 1, 0, 1}
           /\ ret'.button = 0 => table'.currentPage = table.currentPage
           /\ (ret'.inPrev /\ ret'.inNext)
                  => table'.currentPage \in {table.currentPage,
                                             table.currentPage - 1}]_vars

\* A release event (button 4) on a cell that lies in both rectangles of a
\* table of three pages, which is then on page 1.
C27_Witness ==
    /\ ret.op = "Table.Mouse"
    /\ ret.button = 4
    /\ ret.inPrev /\ ret.inNext
    /\ table.numPages > 2
    /\ table.currentPage = 1

\* C28: for every configuration whose widgets were all created,
\* dynamicGridLayout succeeds and places each configured widget exactly
\* once, as its own instance and in the order of the configuration, also
\* when two widgets share a title or a widget is titled "title"; with at
\* least one widget there is at least one row.
C28_EachWidgetPlacedOnce ==
    ret.op = "dynamicGridLayout" =>
        LET rows == layout.rows
            RECURSIVE Placed(_)
            Placed(r) ==
                IF r > Len(rows) THEN <<>>
                ELSE [c \in 1..Len(rows[r].cols) |-> rows[r].cols[c].widget]
                        \o Placed(r + 1)
        IN  /\ layout.err = OK
            /\ Len(config) <= MaxWidgets =>
                   Placed(1) = [i \in 1..Len(config) |-> i]
            /\ Len(config) >= 1 => Len(rows) >= 1

\* C29: for every non-empty bin sequence and every region large enough to
\* have a plot area, Histogram.Draw sets every dot of every bar inside the
\* padded plot area, columns padding .. brailleW - padding - 1 and rows
\* padding .. brailleH - padding - 1, and drops no bar at the right edge,
\* whatever the number of bins.
C29_BarsInsidePlotArea ==
    LET bins == BinsAt(heap, histogram.bins)
        brailleW == cvs.w * 2
        brailleH == cvs.ht * 4
        plotW == brailleW - 8
        plotH == brailleH - 8
        barWidth == IF plotW \div Len(bins) >= 1 THEN plotW \div Len(bins) ELSE 1
        maxBin == SetMax({1} \cup {bins[k] : k \in 1..Len(bins)})
    IN  (/\ widget = "histogram"
         /\ ret.op = "Histogram.Draw"
         /\ Len(bins) > 0
         /\ plotW > 0 /\ plotH > 0)
            => /\ \A k \in 1..Len(cvs.calls) :
                      /\ cvs.calls[k].bx >= 4 /\ cvs.calls[k].bx < brailleW - 4
                      /\ cvs.calls[k].by >= 4 /\ cvs.calls[k].by < brailleH - 4
               /\ \A i \in 1..Len(bins) :
                      Scale(bins[i], maxBin, plotH) > 0
                          => \E k \in 1..Len(cvs.calls) :
                                 cvs.calls[k].bx = 4 + (i - 1) * barWidth

\* C30: for every source the generator accepts (a .csv path, a .json path,
\* an http(s) URL, the system metrics), the configuration it writes, read
\* by LoadConfigAndData, selects a data source of the same type that points
\* at the same path or URL.
C30_LoadSelectsGeneratedSource ==
    ret.op = "LoadConfigAndData"
        => dataSource = GenerateDashboardConfig(sourcePath, TRUE).dataSource

====
